---- MODULE Spec2Model ----
(***************************************************************************)
(* Watchman: webhook-driven security-scan pipeline.                        *)
(*                                                                         *)
(* The model follows backend/main.py (the webhook endpoint and its         *)
(* background task), backend/orchestrator.py (process_github_webhook, the  *)
(* pipeline), backend/database.py (the scan_runs table and its satellite   *)
(* tables), backend/scanner.py, backend/bedrock_agent.py and               *)
(* backend/github_handler.py (the collaborators' result shapes).           *)
(*                                                                         *)
(* Python strings are sequences of one-character strings, so that          *)
(* startswith, lower and replace are computed and not assumed.             *)
(* A value that may be missing or None is a record [p, s]: p = "absent"     *)
(* (key not in the dict), "null" (None) or "str" (the string s).           *)
(***************************************************************************)
EXTENDS Naturals, Sequences, FiniteSets

(***************************************************************************)
(* Bounds of the model.                                                    *)
(***************************************************************************)
\* findings of one severity a scan reports
MaxPerSeverity == 1
\* critical issues a model response lists
MaxCritical == 1
\* files one remediation PR commits
MaxFiles == 1
\* lines of a file that _apply_code_changes edits
MaxLines == 3
\* changes handed to _apply_code_changes for one file
MaxChanges == 2

(***************************************************************************)
(* Strings.                                                                *)
(***************************************************************************)
SECURITY_FIXES_PREFIX == <<"s","e","c","u","r","i","t","y","-","f","i","x","e","s","-">>
SECURITY_COMMIT_PREFIX == <<"s","e","c","u","r","i","t","y",":">>
REFS_HEADS == <<"r","e","f","s","/","h","e","a","d","s","/">>
S_unknown == <<"u","n","k","n","o","w","n">>
S_manual_scan == <<"m","a","n","u","a","l","_","s","c","a","n">>
S_manual_msg == <<"M","a","n","u","a","l"," ","s","e","c","u","r","i","t","y"," ","s","c","a","n">>
S_main == <<"m","a","i","n">>
S_zeros == <<"0","0","0","0","0","0","0">>
S_sha == <<"a","b","c","1","2","3","d","e","f","4","5","6">>
S_deleted_sha == <<"0","0","0","0","0","0","0","0","0","0">>
S_repo == <<"o","/","r">>
\* branch names that nearly match the remediation prefix
S_fix == <<"s","e","c","u","r","i","t","y","-","f","i","x">>
S_Cap == <<"S","e","c","u","r","i","t","y","-","f","i","x","e","s","-","1">>
S_hotfix == <<"s","e","c","u","r","i","t","y","-","f","i","x","e","s","-","h","o","t","f","i","x">>
\* commit messages
M_sec == <<"s","e","c","u","r","i","t","y",":"," ","f","i","x">>
M_SEC == <<"S","E","C","U","R","I","T","Y",":"," ","p","a","t","c","h">>
M_nocolon == <<"s","e","c","u","r","i","t","y"," ","f","i","x">>
M_add == <<"A","d","d"," ","f","e","a","t","u","r","e">>

UpperCase == <<"A","B","C","D","E","F","G","H","I","J","K","L","M","N","O","P","Q","R","S","T","U","V","W","X","Y","Z">>
LowerCase == <<"a","b","c","d","e","f","g","h","i","j","k","l","m","n","o","p","q","r","s","t","u","v","w","x","y","z">>
Digits == <<"0","1","2","3","4","5","6","7","8","9">>

\* str.lower()
lower(s) ==
    [i \in 1..Len(s) |->
        IF \E k \in 1..Len(UpperCase) : UpperCase[k] = s[i]
        THEN LowerCase[CHOOSE k \in 1..Len(UpperCase) : UpperCase[k] = s[i]]
        ELSE s[i]]

\* str.startswith(prefix)
startswith(s, prefix) ==
    /\ Len(s) >= Len(prefix)
    /\ SubSeq(s, 1, Len(prefix)) = prefix

\* str.replace(old, ''): every occurrence of old is removed, scanning left to right
RECURSIVE replace_with_empty(_, _)
replace_with_empty(s, old) ==
    IF Len(s) = 0 THEN <<>>
    ELSE IF startswith(s, old) THEN replace_with_empty(SubSeq(s, Len(old) + 1, Len(s)), old)
    ELSE <<Head(s)>> \o replace_with_empty(Tail(s), old)

(***************************************************************************)
(* Optional values and dicts.                                              *)
(***************************************************************************)
Absent == [p |-> "absent", s |-> <<>>]
None == [p |-> "null", s |-> <<>>]
Str(s) == [p |-> "str", s |-> s]

\* Python truthiness of an optional string: None and '' are falsy
truthy(v) == v.p = "str" /\ Len(v.s) > 0

\* dict.get(key, default) on a looked-up value
get(v, default) == IF v.p = "absent" THEN default ELSE v

(***************************************************************************)
(* A dict as the webhook code reads it: the keys of a raw GitHub push      *)
(* payload (ref, after, head_commit, commits, repository) and the keys of  *)
(* the record extract_webhook_data builds (event_type, repo_full_name,     *)
(* branch, commit_sha, commit_message); a key the dict lacks is Absent.    *)
(***************************************************************************)
NoDict == [p |-> "absent", message |-> Absent, full_name |-> Absent]
NullDict == [p |-> "null", message |-> Absent, full_name |-> Absent]
HeadCommit(message) == [p |-> "dict", message |-> message, full_name |-> Absent]
Repository(full_name) == [p |-> "dict", message |-> Absent, full_name |-> full_name]

RawPayload(ref, after, head_commit, commits, repository) ==
    [json |-> "object",
     ref |-> ref, after |-> after, head_commit |-> head_commit,
     commits |-> commits, repository |-> repository,
     event_type |-> "absent", repo_full_name |-> Absent, branch |-> Absent,
     commit_sha |-> Absent, commit_message |-> Absent]

\* a JSON object with none of these keys
NoPayload == RawPayload(Absent, Absent, NoDict, "absent", NoDict)

\* a JSON value that is no object: null, an array, a string or a number
NonObject(json) == [NoPayload EXCEPT !.json = json]

\* a value of another type than the code expects: a number where a string is read
Other == [p |-> "other", s |-> <<>>]

\* dict.get(key, {}).get(sub): None for a missing sub-key; d is never None here
get_sub(d, v) == IF d.p = "absent" THEN None ELSE get(v, None)

\* the push record of extract_webhook_data (orchestrator.py:529-542)
push_record(payload) ==
    [ref |-> Absent, after |-> Absent, head_commit |-> NoDict,
     commits |-> "absent", repository |-> NoDict,
     event_type |-> "push",
     repo_full_name |-> get_sub(payload.repository, payload.repository.full_name),
     branch |-> Str(replace_with_empty(get(payload.ref, Str(<<>>)).s, REFS_HEADS)),
     commit_sha |-> get(payload.after, None),
     commit_message |->
        IF payload.head_commit.p = "absent" THEN Str(<<>>)
        ELSE get(payload.head_commit.message, Str(<<>>))]

\* the record for any other event (orchestrator.py:545-550)
unknown_record(payload) ==
    [ref |-> Absent, after |-> Absent, head_commit |-> NoDict,
     commits |-> "absent", repository |-> NoDict,
     event_type |-> "unknown",
     repo_full_name |-> get_sub(payload.repository, payload.repository.full_name),
     branch |-> Absent, commit_sha |-> Absent, commit_message |-> Absent]

\* the record of the except branch (orchestrator.py:552-557)
error_record(payload) ==
    [ref |-> Absent, after |-> Absent, head_commit |-> NoDict,
     commits |-> "absent", repository |-> NoDict,
     event_type |-> "error",
     repo_full_name |-> Absent,
     branch |-> Absent, commit_sha |-> Absent, commit_message |-> Absent]

\* the try block of extract_webhook_data raises: `in` or .get on a value that is no
\* dict (TypeError, AttributeError), .get on a repository or head_commit that is
\* None, .replace on a ref that is no string, len of a commits that is None
extract_raises(payload) ==
    IF payload.json # "object" THEN TRUE
    ELSE IF payload.ref.p # "absent" /\ payload.commits # "absent"
    THEN \/ payload.repository.p = "null"
         \/ payload.ref.p # "str"
         \/ payload.head_commit.p = "null"
         \/ payload.commits = "null"
    ELSE payload.repository.p = "null"

\* faulty variant: no except clause, the exception leaves the function
extract_webhook_data_uncaught(payload) ==
    IF extract_raises(payload)
    THEN [error_record(payload) EXCEPT !.event_type = "raised"]
    ELSE IF payload.ref.p # "absent" /\ payload.commits # "absent"
    THEN push_record(payload)
    ELSE unknown_record(payload)

\* extract_webhook_data (orchestrator.py:516-557)
extract_webhook_data(payload) ==
    IF extract_raises(payload) THEN error_record(payload)
    ELSE IF payload.ref.p # "absent" /\ payload.commits # "absent"
    THEN push_record(payload)
    ELSE unknown_record(payload)

(***************************************************************************)
(* Loop prevention (orchestrator.py:79-105).                               *)
(***************************************************************************)
\* faulty variant: the branch compared for equality with the prefix
is_security_fix_branch_exact(branch) == branch = SECURITY_FIXES_PREFIX

\* branch.startswith('security-fixes-')
is_security_fix_branch(branch) == startswith(branch, SECURITY_FIXES_PREFIX)

\* faulty variant: the message not lowered before the comparison
is_security_fix_commit_cased(commit_message) ==
    startswith(commit_message, SECURITY_COMMIT_PREFIX)

\* faulty variant: the colon left out of the prefix
is_security_fix_commit_wide(commit_message) ==
    startswith(lower(commit_message), <<"s","e","c","u","r","i","t","y">>)

\* commit_message.lower().startswith('security:')
is_security_fix_commit(commit_message) ==
    startswith(lower(commit_message), SECURITY_COMMIT_PREFIX)

(***************************************************************************)
(* State.                                                                  *)
(***************************************************************************)
VARIABLES
    cur,                \* the invocation of process_github_webhook in progress, or the last one
    scan_runs,          \* table scan_runs: row i has id i
    security_findings,  \* table security_findings
    ai_analysis,        \* table ai_analysis
    github_issues,      \* table github_issues
    github,             \* the repository at the provider: issues, comments, branches, commits, PRs
    network,            \* push events the provider has still to deliver to the endpoint
    tasks,              \* background tasks added and not yet started
    responses,          \* what the endpoint answered, in order
    clock,              \* wall clock in seconds, as create_security_fix_pr reads it
    outside,            \* "waiting" until the one trigger from outside (a push, a direct call or
                        \* a manual scan) has happened, then "arrived"
    email_handler,      \* TRUE when the EmailHandler was constructed, FALSE when it is None
    edit,               \* a call of _apply_code_changes: its arguments and, once it
                        \* has returned, its result
    disk,               \* the temporary directories and the working copies on disk
    runs                \* pipeline runs of other processes, as far as they call
                        \* GitHubHandler: where each stands and what it holds

vars == <<cur, scan_runs, security_findings, ai_analysis, github_issues, github,
          network, tasks, responses, clock, outside, email_handler, edit, disk, runs>>

NoResult ==
    [returned |-> FALSE, success |-> FALSE, skipped_reason |-> "none",
     error |-> "none", scan_run_id |-> 0, repo_name |-> <<>>, branch |-> <<>>,
     github_issue |-> "absent", security_fix_pr |-> "absent"]

NoScan == [ran |-> FALSE, error |-> "none", ERROR |-> 0, WARNING |-> 0, INFO |-> 0, total_findings |-> 0]
\* the types of the four keys of an analysis; "absent" for a key that is missing
KeyTypes(executive_summary, critical_issues, recommended_actions, tools_to_use) ==
    [executive_summary |-> executive_summary, critical_issues |-> critical_issues,
     recommended_actions |-> recommended_actions, tools_to_use |-> tools_to_use]

\* an analysis: which code path built it, the types of its four keys and the
\* length of its critical_issues list
NoAnalysis ==
    [source |-> "none", types |-> KeyTypes("absent", "absent", "absent", "absent"),
     critical_issues |-> 0]

\* an issue title: its form and the two numbers it prints (the review form prints
\* one number, the total)
NoTitle == [form |-> "none", critical |-> 0, total |-> 0]

NoRun ==
    [pc |-> "idle", via |-> "none", origin |-> "none",
     event_message |-> Absent, payload_message |-> Absent,
     repo_full_name |-> <<>>, branch |-> <<>>, commit_sha |-> None, commit_message |-> <<>>,
     scan_run_id |-> 0, clone_result |-> "None", local_path |-> 0,
     scan_results |-> NoScan, analysis_results |-> NoAnalysis,
     scan_metadata |-> FALSE, issue_number |-> 0, issue_title |-> NoTitle,
     last_email |-> <<>>,
     github_issue_result |-> "None", code_fixes |-> "None", pr_result |-> "None",
     exception |-> "none", result |-> NoResult, trace |-> <<>>]

\* an empty disk, and no run of another process
NoDisk == [temp_dirs |-> {}, copies |-> {}]
NoRuns == <<>>

\* the event loop is free: no invocation is between its first and its last statement
Free == cur.pc \in {"idle", "done", "raised"}

(***************************************************************************)
(* process_github_webhook, lines 68-105: branch and commit defaults, then  *)
(* the two loop-prevention filters. Nothing here is inside the try block,  *)
(* so an exception leaves the function.                                    *)
(***************************************************************************)
\* the head-commit message a dict carries: Absent when it has no head_commit or no
\* message, None when either is None
payload_message(payload) ==
    IF payload.head_commit.p = "dict" THEN payload.head_commit.message
    ELSE IF payload.head_commit.p = "null" THEN None
    ELSE Absent

Returned(r, res) == [r EXCEPT !.pc = "done", !.result = res]

Propagates(r, e) == [r EXCEPT !.pc = "raised", !.exception = e]

\* faulty variant: a skip reported as a failure
skip_result_failure(repo_full_name, branch, reason) ==
    [NoResult EXCEPT !.returned = TRUE, !.success = FALSE, !.skipped_reason = reason,
                     !.error = "skipped",
                     !.repo_name = repo_full_name, !.branch = branch]

skip_result(repo_full_name, branch, reason) ==
    [NoResult EXCEPT !.returned = TRUE, !.success = TRUE, !.skipped_reason = reason,
                     !.repo_name = repo_full_name, !.branch = branch]

process_github_webhook(webhook_payload, repo_full_name, branch_arg, commit_sha_arg, via, origin, event_message) ==
    LET ref == get(webhook_payload.ref, Str(REFS_HEADS \o S_main))
        branch == IF truthy(branch_arg) THEN branch_arg.s
                  ELSE replace_with_empty(ref.s, REFS_HEADS)
        commit_sha == IF truthy(commit_sha_arg) THEN commit_sha_arg
                      ELSE get(webhook_payload.after, Str(S_unknown))
        head_commit == webhook_payload.head_commit
        message == IF head_commit.p = "absent" THEN Str(<<>>)
                   ELSE get(head_commit.message, Str(<<>>))
        r == [NoRun EXCEPT !.via = via, !.origin = origin, !.event_message = event_message,
                           !.payload_message = payload_message(webhook_payload),
                           !.repo_full_name = repo_full_name, !.branch = branch,
                           !.commit_sha = commit_sha, !.commit_message = message.s]
    IN  IF ~truthy(branch_arg) /\ ref.p = "null"
        THEN Propagates([r EXCEPT !.branch = <<>>], "AttributeError")
        ELSE IF is_security_fix_branch(branch)
        THEN Returned(r, skip_result(repo_full_name, branch, "security_fix_branch"))
        ELSE IF head_commit.p = "null" \/ message.p = "null"
        THEN Propagates(r, "AttributeError")
        ELSE IF is_security_fix_commit(message.s)
        THEN IF commit_sha.p = "str"
             THEN Returned(r, skip_result(repo_full_name, branch, "security_fix_commit"))
             ELSE Propagates(r, "TypeError")
        ELSE [r EXCEPT !.pc = "create_scan_run"]

\* faulty variant: a mock payload whose message the commit filter matches
manual_payload_flagged(repo_full_name, branch) ==
    RawPayload(Str(REFS_HEADS \o branch), Str(S_manual_scan),
               HeadCommit(Str(M_sec)), "absent", Repository(Str(repo_full_name)))

\* process_manual_scan (orchestrator.py:478-513): the mock payload and the call
manual_payload(repo_full_name, branch) ==
    RawPayload(Str(REFS_HEADS \o branch), Str(S_manual_scan),
               HeadCommit(Str(S_manual_msg)), "absent", Repository(Str(repo_full_name)))

process_manual_scan(repo_full_name, branch) ==
    process_github_webhook(manual_payload(repo_full_name, branch), repo_full_name,
                           Str(branch), Str(S_manual_scan), "manual", "manual",
                           Str(S_manual_msg))

(***************************************************************************)
(* Inputs.                                                                 *)
(***************************************************************************)
Branches == {S_main, S_fix, S_Cap, S_hotfix}
Messages == {M_sec, M_SEC, M_nocolon, M_add}

HeadCommits == {NoDict, NullDict, HeadCommit(Absent)} \cup {HeadCommit(Str(m)) : m \in Messages}

\* payloads handed to process_github_webhook by a direct caller
DirectPayloads ==
    {RawPayload(ref, Str(S_sha), hc, "absent", Repository(Str(S_repo))) :
        ref \in {Absent} \cup {Str(REFS_HEADS \o b) : b \in Branches},
        hc \in HeadCommits}

BranchArgs == {None} \cup {Str(b) : b \in Branches}
ShaArgs == {None, Str(S_sha)}


(***************************************************************************)
(* The store (database.py).                                                *)
(***************************************************************************)
\* create_scan_run: INSERT ... VALUES (?, ?, ?, 'running'); the other columns take
\* their defaults. updates counts the UPDATE statements that reached the row.
new_scan_run(repo_name, branch, commit_sha) ==
    [repo_name |-> repo_name, branch |-> branch, commit_sha |-> commit_sha,
     scan_status |-> "running", total_findings |-> 0,
     critical_count |-> 0, high_count |-> 0, medium_count |-> 0, low_count |-> 0,
     scan_duration_seconds |-> "NULL", updates |-> 0]

\* finding_counts.get(key, 0)
count_of(finding_counts, key) ==
    IF key \in DOMAIN finding_counts THEN finding_counts[key] ELSE 0

NoCounts == [k \in {} |-> 0]

\* update_scan_run: UPDATE scan_runs SET ... WHERE id = ?
update_scan_run(rows, scan_run_id, status, total_findings, finding_counts, duration) ==
    [i \in DOMAIN rows |->
        IF i = scan_run_id
        THEN [rows[i] EXCEPT !.scan_status = status,
                             !.total_findings = total_findings,
                             !.critical_count = count_of(finding_counts, "ERROR"),
                             !.high_count = count_of(finding_counts, "WARNING"),
                             !.medium_count = count_of(finding_counts, "MEDIUM"),
                             !.low_count = count_of(finding_counts, "LOW"),
                             !.scan_duration_seconds = duration,
                             !.updates = @ + 1]
        ELSE rows[i]]

\* orchestrator.py:145-150: the severity buckets flattened, bucket by bucket
RECURSIVE repeat(_, _)
repeat(x, n) == IF n = 0 THEN <<>> ELSE <<x>> \o repeat(x, n - 1)

all_findings(scan_run_id, scan_results) ==
    repeat([scan_run_id |-> scan_run_id, severity |-> "ERROR"], scan_results.ERROR)
    \o repeat([scan_run_id |-> scan_run_id, severity |-> "WARNING"], scan_results.WARNING)
    \o repeat([scan_run_id |-> scan_run_id, severity |-> "INFO"], scan_results.INFO)

(***************************************************************************)
(* The pipeline (orchestrator.py:107-442), one action per call to the      *)
(* store or to a collaborator.                                             *)
(***************************************************************************)
Call(r, name) == [r EXCEPT !.trace = Append(@, name)]

\* an exception inside the try block: control goes to the except clause
Raise(r, e) == [r EXCEPT !.pc = "except", !.exception = e]

db_unchanged == UNCHANGED <<scan_runs, security_findings, ai_analysis, github_issues>>
world_unchanged == UNCHANGED <<github, network, clock, disk>>
shell_unchanged == UNCHANGED <<tasks, responses, outside, email_handler, edit, runs>>

\* faulty variant: fix generation not gated on the critical issues
Step5_ungated(r) ==
    IF r.scan_metadata
    THEN [r EXCEPT !.pc = "generate_code_fixes"]
    ELSE [r EXCEPT !.pc = "update_scan_run"]

\* Step 5 gate (orchestrator.py:244-250): scan_metadata is assigned only in the
\* total_findings > 0 branch of step 4; reading it unassigned raises UnboundLocalError
Step5(r) ==
    IF r.analysis_results.critical_issues > 0
    THEN IF r.scan_metadata
         THEN [r EXCEPT !.pc = "generate_code_fixes"]
         ELSE Raise(r, "UnboundLocalError")
    ELSE [r EXCEPT !.pc = "update_scan_run"]

\* faulty variant: the issue step gated on the ERROR findings alone
Step4_errors_only(r) ==
    IF r.scan_results.ERROR > 0
    THEN [r EXCEPT !.pc = "create_security_issue", !.scan_metadata = TRUE]
    ELSE Step5(r)

\* faulty variant: the issue step not gated on total_findings
Step4_ungated(r) == [r EXCEPT !.pc = "create_security_issue", !.scan_metadata = TRUE]

\* Step 4 gate (orchestrator.py:190-200)
Step4(r) ==
    IF r.scan_results.total_findings > 0
    THEN [r EXCEPT !.pc = "create_security_issue", !.scan_metadata = TRUE]
    ELSE Step5(r)

\* faulty variant: the comment attempted whether or not an issue was filed
AfterPrEmail_unconditional(r) == [r EXCEPT !.pc = "add_comment_to_issue"]

\* after a PR was created: PR email, then the cross-link comment (orchestrator.py:268-297)
AfterPrEmail(r) ==
    IF r.github_issue_result = "ok"
    THEN [r EXCEPT !.pc = "add_comment_to_issue"]
    ELSE [r EXCEPT !.pc = "update_scan_run"]

AfterPrCreated(r) ==
    IF email_handler
    THEN [r EXCEPT !.pc = "send_pr_created_notification"]
    ELSE AfterPrEmail(r)

\* the result of a completed run (orchestrator.py:351-373)
workflow_result(r) ==
    [NoResult EXCEPT !.returned = TRUE, !.success = TRUE,
                     !.scan_run_id = r.scan_run_id, !.repo_name = r.repo_full_name,
                     !.branch = r.branch,
                     !.github_issue = r.github_issue_result,
                     !.security_fix_pr = r.pr_result]

\* the result of a failed run (orchestrator.py:433-442)
failed_result(r) ==
    [NoResult EXCEPT !.returned = TRUE, !.success = FALSE, !.error = r.exception,
                     !.scan_run_id = r.scan_run_id, !.repo_name = r.repo_full_name,
                     !.branch = r.branch]

\* faulty variant: the pipeline started before the row is inserted
create_scan_run_deferred ==
    /\ cur.pc = "create_scan_run"
    /\ cur' = [Call(cur, "create_scan_run") EXCEPT !.pc = "clone_repository",
                                                   !.scan_run_id = Len(scan_runs) + 1]
    /\ db_unchanged /\ world_unchanged /\ shell_unchanged

\* commit_sha is NOT NULL in the schema: a None makes the INSERT raise, outside the try
create_scan_run ==
    /\ cur.pc = "create_scan_run"
    /\ IF cur.commit_sha.p = "str"
       THEN /\ scan_runs' = Append(scan_runs,
                        new_scan_run(cur.repo_full_name, cur.branch, cur.commit_sha.s))
            /\ cur' = [Call(cur, "create_scan_run") EXCEPT !.pc = "clone_repository",
                                                           !.scan_run_id = Len(scan_runs) + 1]
       ELSE /\ scan_runs' = scan_runs
            /\ cur' = Propagates(Call(cur, "create_scan_run"), "IntegrityError")
    /\ UNCHANGED <<security_findings, ai_analysis, github_issues>>
    /\ world_unchanged /\ shell_unchanged

\* faulty variant: every clone made in one fixed directory
mkdtemp_fixed(d) == 1

\* tempfile.mkdtemp: a new directory under a name no directory has. The names are
\* interchangeable, so the new one is the least number not in use.
mkdtemp(d) ==
    CHOOSE n \in 1..(Cardinality(d.temp_dirs) + 1) :
        n \notin d.temp_dirs /\ \A m \in 1..(n - 1) : m \in d.temp_dirs

\* the working copy of an owner inside a temporary directory
Copy(temp_dir, owner) == [temp_dir |-> temp_dir, owner |-> owner]

\* clone_repository (github_handler.py:366-436) as the disk sees it: get_repo raises
\* before anything is created ("api_error"); or the temporary directory is made
\* and Repo.clone_from raises ("git_error"); or, a directory found at local_path
\* removed, the clone is written there ("ok")
CloneOutcomes == {"ok", "git_error", "api_error"}

cloned(d, temp_dir, owner, outcome) ==
    IF outcome = "api_error" THEN d
    ELSE IF outcome = "git_error"
    THEN [d EXCEPT !.temp_dirs = @ \cup {temp_dir},
                   !.copies = {c \in @ : c.temp_dir # temp_dir}]
    ELSE [d EXCEPT !.temp_dirs = @ \cup {temp_dir},
                   !.copies = {c \in @ : c.temp_dir # temp_dir} \cup {Copy(temp_dir, owner)}]

\* cleanup_clone (github_handler.py:438-456): shutil.rmtree(local_path), the working
\* copy; the directory mkdtemp made around it is not touched
cleaned(d, local_path) == [d EXCEPT !.copies = {c \in @ : c.temp_dir # local_path}]

\* clone_repository returns success or a failure record; it never raises
clone_repository ==
    /\ cur.pc = "clone_repository"
    /\ \E outcome \in CloneOutcomes :
        LET temp_dir == mkdtemp(disk)
        IN  /\ disk' = cloned(disk, temp_dir, cur.scan_run_id, outcome)
            /\ cur' = IF outcome = "ok"
                      THEN [Call(cur, "clone_repository") EXCEPT !.pc = "scan_repository",
                                                                 !.clone_result = "ok",
                                                                 !.local_path = temp_dir]
                      ELSE Raise([Call(cur, "clone_repository") EXCEPT !.clone_result = "fail"],
                                 "Failed to clone repository")
    /\ db_unchanged /\ UNCHANGED <<github, network, clock>> /\ shell_unchanged

\* scan_repository (scanner.py:17-71): an error record, or the processed findings,
\* where total_findings is the number of results and every result lands in one bucket
ScanErrors == {"Semgrep failed", "Scan timeout", "Invalid JSON from Semgrep"}

processed(e, w, i) ==
    [ran |-> TRUE, error |-> "none", ERROR |-> e, WARNING |-> w, INFO |-> i,
     total_findings |-> e + w + i]

scan_error(e) == [NoScan EXCEPT !.ran = TRUE, !.error = e]

\* faulty variant: the error record of the scanner not looked at
scan_repository_unchecked ==
    /\ cur.pc = "scan_repository"
    /\ \/ \E e \in ScanErrors :
            cur' = [Call(cur, "scan_repository") EXCEPT
                        !.pc = "store_security_findings",
                        !.scan_results = scan_error(e)]
       \/ \E e \in 0..MaxPerSeverity, w \in 0..MaxPerSeverity, i \in 0..MaxPerSeverity :
            cur' = [Call(cur, "scan_repository") EXCEPT
                        !.pc = "store_security_findings",
                        !.scan_results = processed(e, w, i)]
    /\ db_unchanged /\ world_unchanged /\ shell_unchanged

scan_repository ==
    /\ cur.pc = "scan_repository"
    /\ \/ \E e \in ScanErrors :
            cur' = Raise([Call(cur, "scan_repository") EXCEPT !.scan_results = scan_error(e)],
                         "Security scan failed")
       \/ \E e \in 0..MaxPerSeverity, w \in 0..MaxPerSeverity, i \in 0..MaxPerSeverity :
            cur' = [Call(cur, "scan_repository") EXCEPT
                        !.pc = "store_security_findings",
                        !.scan_results = processed(e, w, i)]
    /\ db_unchanged /\ world_unchanged /\ shell_unchanged

store_security_findings ==
    /\ cur.pc = "store_security_findings"
    /\ security_findings' = security_findings \o all_findings(cur.scan_run_id, cur.scan_results)
    /\ cur' = [Call(cur, "store_security_findings") EXCEPT !.pc = "analyze_security_findings"]
    /\ UNCHANGED <<scan_runs, ai_analysis, github_issues>>
    /\ world_unchanged /\ shell_unchanged

\* the number of critical issues of _fallback_analysis: the ERROR findings, at most 3
FallbackTop == 3

Min(a, b) == IF a < b THEN a ELSE b

\* _fallback_analysis (bedrock_agent.py:279-313): one CRITICAL issue for each of the
\* first three ERROR findings
fallback_analysis(scan_results) ==
    [source |-> "fallback_analysis", types |-> KeyTypes("str", "list", "list", "list"),
     critical_issues |-> Min(scan_results.ERROR, FallbackTop)]

\* _fallback_response: the model's output could not be parsed
fallback_response ==
    [source |-> "fallback_response", types |-> KeyTypes("str", "list", "list", "list"),
     critical_issues |-> 0]

\* What _call_claude_api gives analyze_security_findings: it raises, or returns a
\* response with no content, with text that is not JSON, with a JSON array, or
\* with a JSON object whose four keys have the given types and whose
\* critical_issues list has n entries.
Response(kind, types, n) == [kind |-> kind, types |-> types, n |-> n]

ModelResponses ==
    {Response(k, KeyTypes("absent", "absent", "absent", "absent"), 0) :
        k \in {"raises", "no_content", "plain_text", "json_array", "json_object"}}
    \cup {Response("json_object", KeyTypes("str", "list", "list", "list"), n) :
            n \in 0..MaxCritical}
    \cup {Response("json_object", KeyTypes("str", "list", "str", "list"), 0)}

\* the loop over required_keys (bedrock_agent.py:256-260): a missing key is filled,
\* a key that is there is kept as it is
filled(types) ==
    [k \in DOMAIN types |->
        IF types[k] = "absent"
        THEN (IF k = "executive_summary" THEN "str" ELSE "list")
        ELSE types[k]]

\* _parse_claude_response (bedrock_agent.py:229-267)
parse_claude_response(response) ==
    IF response.kind = "no_content" THEN fallback_response
    ELSE IF response.kind = "plain_text"
    THEN [source |-> "model", types |-> KeyTypes("str", "list", "list", "list"),
          critical_issues |-> 0]
    ELSE IF response.kind = "json_array" THEN fallback_response
    ELSE [source |-> "model", types |-> filled(response.types),
          critical_issues |-> IF response.types.critical_issues = "list"
                              THEN response.n ELSE 0]

\* the value analyze_security_findings returns (bedrock_agent.py:45-83)
analysis_of(response, scan_results) ==
    IF response.kind = "raises" THEN fallback_analysis(scan_results)
    ELSE parse_claude_response(response)

\* faulty variant: an exception of the model call reaches the orchestrator
analyze_security_findings_raising ==
    /\ cur.pc = "analyze_security_findings"
    /\ \E response \in ModelResponses :
        cur' = IF response.kind = "raises"
               THEN Raise(Call(cur, "analyze_security_findings"), "Claude API call failed")
               ELSE [Call(cur, "analyze_security_findings") EXCEPT
                        !.pc = "store_ai_analysis",
                        !.analysis_results = analysis_of(response, cur.scan_results)]
    /\ db_unchanged /\ world_unchanged /\ shell_unchanged

\* Step 3 (orchestrator.py:154-166)
analyze_security_findings ==
    /\ cur.pc = "analyze_security_findings"
    /\ \E response \in ModelResponses :
        cur' = [Call(cur, "analyze_security_findings") EXCEPT
                    !.pc = "store_ai_analysis",
                    !.analysis_results = analysis_of(response, cur.scan_results)]
    /\ db_unchanged /\ world_unchanged /\ shell_unchanged

store_ai_analysis ==
    /\ cur.pc = "store_ai_analysis"
    /\ ai_analysis' = Append(ai_analysis,
                             [scan_run_id |-> cur.scan_run_id,
                              critical_issues |-> cur.analysis_results.critical_issues])
    /\ cur' = Step4(Call(cur, "store_ai_analysis"))
    /\ UNCHANGED <<scan_runs, security_findings, github_issues>>
    /\ world_unchanged /\ shell_unchanged

\* create_security_issue returns success with the new issue's number, or a failure record
\* faulty variant: the total read from the scan results
generate_issue_title_of_scan(analysis_results, scan_results) ==
    IF analysis_results.critical_issues > 0
    THEN [form |-> "alert", critical |-> analysis_results.critical_issues,
          total |-> scan_results.total_findings]
    ELSE [form |-> "review", critical |-> 0, total |-> scan_results.total_findings]

\* _generate_issue_title (github_handler.py:92-103). The analysis the agent returns
\* has no 'by_severity' key (bedrock_agent.py:232-275), so total_findings is
\* critical_count; the scan results are not an argument.
generate_issue_title(analysis_results, scan_results) ==
    LET critical_count == analysis_results.critical_issues
        total_findings == critical_count
    IN  IF critical_count > 0
        THEN [form |-> "alert", critical |-> critical_count, total |-> total_findings]
        ELSE [form |-> "review", critical |-> 0, total |-> total_findings]

create_security_issue ==
    /\ cur.pc = "create_security_issue"
    /\ \/ /\ github' = [github EXCEPT !.issues = @ + 1]
          /\ cur' = [Call(cur, "create_security_issue") EXCEPT
                        !.pc = "store_github_issue", !.github_issue_result = "ok",
                        !.issue_number = github.issues + 1,
                        !.issue_title = generate_issue_title(cur.analysis_results,
                                                             cur.scan_results)]
       \/ /\ github' = github
          /\ cur' = Step5([Call(cur, "create_security_issue") EXCEPT
                              !.github_issue_result = "fail"])
    /\ db_unchanged /\ UNCHANGED <<network, clock, disk>> /\ shell_unchanged

store_github_issue ==
    /\ cur.pc = "store_github_issue"
    /\ github_issues' = Append(github_issues,
                               [scan_run_id |-> cur.scan_run_id,
                                issue_number |-> cur.issue_number])
    /\ cur' = IF email_handler
              THEN [Call(cur, "store_github_issue") EXCEPT
                        !.pc = "send_security_issue_notification"]
              ELSE Step5(Call(cur, "store_github_issue"))
    /\ UNCHANGED <<scan_runs, security_findings, ai_analysis>>
    /\ world_unchanged /\ shell_unchanged

\* the send_* methods of EmailHandler catch every exception and return success false
EmailOutcomes == {"ok", "fail"}

Sent(r, name, outcome) == [Call(r, name) EXCEPT !.last_email = <<name, outcome>>]

send_security_issue_notification ==
    /\ cur.pc = "send_security_issue_notification"
    /\ \E outcome \in EmailOutcomes :
        cur' = Step5(Sent(cur, "send_security_issue_notification", outcome))
    /\ db_unchanged /\ world_unchanged /\ shell_unchanged

\* generate_code_fixes (bedrock_agent.py:85-113): fixes with file changes, fixes
\* without, a fallback that carries an error and no file changes, or a parsed
\* object that has both an "error" key and file changes
CodeFixes == {"file_changes", "empty", "error", "error_with_file_changes"}

\* code_fixes.get("error")
fixes_error(fixes) == fixes \in {"error", "error_with_file_changes"}

\* code_fixes.get("file_changes")
fixes_file_changes(fixes) == fixes \in {"file_changes", "error_with_file_changes"}

\* faulty variant: the PR step entered whatever the patch set holds
AfterFixes_unchecked(fixes) == "create_security_fix_pr"

\* orchestrator.py:252: the PR step only for fixes with file changes and no error
AfterFixes(fixes) ==
    IF ~fixes_error(fixes) /\ fixes_file_changes(fixes)
    THEN "create_security_fix_pr"
    ELSE "update_scan_run"

generate_code_fixes ==
    /\ cur.pc = "generate_code_fixes"
    /\ \E fixes \in CodeFixes :
        cur' = [Call(cur, "generate_code_fixes") EXCEPT
                    !.code_fixes = fixes,
                    !.pc = AfterFixes(fixes)]
    /\ db_unchanged /\ world_unchanged /\ shell_unchanged

(***************************************************************************)
(* create_security_fix_pr (github_handler.py:535-675) and the push events  *)
(* the provider sends for what it creates.                                 *)
(***************************************************************************)
\* strftime('%Y%m%d-%H%M%S') of a clock reading: one string per second
timestamp(now) == <<Digits[(now % 10) + 1]>>

\* faulty variant: the branch named with another prefix than the filter's
fix_branch_name_renamed(now) == S_fix \o <<"-">> \o timestamp(now)

\* github_handler.py:545
fix_branch_name(now) == SECURITY_FIXES_PREFIX \o timestamp(now)

\* github_handler.py:580: f"security: fix {issue_type} in {file_path}"
fix_commit_message == SECURITY_COMMIT_PREFIX \o <<" ","f","i","x">>

\* the push event for the new branch: its head commit is the base branch's
branch_push(repo_full_name, branch_name) ==
    [origin |-> "remediation",
     payload |-> RawPayload(Str(REFS_HEADS \o branch_name), Str(S_sha),
                            HeadCommit(Str(M_add)), "list", Repository(Str(repo_full_name)))]

\* the push event for one commit made on the branch
commit_push(repo_full_name, branch_name) ==
    [origin |-> "remediation",
     payload |-> RawPayload(Str(REFS_HEADS \o branch_name), Str(S_sha),
                            HeadCommit(Str(fix_commit_message)), "list",
                            Repository(Str(repo_full_name)))]

\* github_handler.py:546-552: the branch is created unless get_repo, get_branch or
\* create_git_ref raises; create_git_ref raises when the reference exists
ref_created(g, branch_name, api_ok) == api_ok /\ branch_name \notin g.branches

\* github_handler.py:551-649: the repository after the branch, one commit per
\* modified file and, when a file was modified and create_pull returned, the pull
\* request
github_after_fix(g, branch_name, files_changed, pull_ok) ==
    [g EXCEPT !.branches = @ \cup {branch_name},
              !.commits = @ + files_changed,
              !.pulls = @ + (IF files_changed > 0 /\ pull_ok THEN 1 ELSE 0)]

create_security_fix_pr ==
    /\ cur.pc = "create_security_fix_pr"
    /\ \E tick \in 0..1, files_changed \in 0..MaxFiles, api_ok \in BOOLEAN, pull_ok \in BOOLEAN :
        LET now == clock + tick
            branch_name == fix_branch_name(now)
            r == Call(cur, "create_security_fix_pr")
        IN  /\ clock' = now
            /\ IF ~ref_created(github, branch_name, api_ok)
               THEN \* get_repo, get_branch or create_git_ref raised: nothing was created
                    /\ files_changed = 0 /\ pull_ok
                    /\ github' = github
                    /\ network' = network
                    /\ cur' = [r EXCEPT !.pr_result = "fail", !.pc = "update_scan_run"]
               ELSE /\ files_changed = 0 => pull_ok
                    /\ github' = github_after_fix(github, branch_name, files_changed, pull_ok)
                    /\ network' = network
                            \o <<branch_push(cur.repo_full_name, branch_name)>>
                            \o repeat(commit_push(cur.repo_full_name, branch_name), files_changed)
                    /\ cur' = IF files_changed > 0 /\ pull_ok
                              THEN AfterPrCreated([r EXCEPT !.pr_result = "ok"])
                              ELSE [r EXCEPT !.pr_result = "fail", !.pc = "update_scan_run"]
    /\ db_unchanged /\ shell_unchanged /\ UNCHANGED disk

send_pr_created_notification ==
    /\ cur.pc = "send_pr_created_notification"
    /\ \E outcome \in EmailOutcomes :
        cur' = AfterPrEmail(Sent(cur, "send_pr_created_notification", outcome))
    /\ db_unchanged /\ world_unchanged /\ shell_unchanged

\* add_comment_to_issue returns success, returns a failure record, or raises
\* something other than GithubException; the orchestrator catches that
add_comment_to_issue ==
    /\ cur.pc = "add_comment_to_issue"
    /\ \E outcome \in {"ok", "fail", "raise"} :
        /\ github' = IF outcome = "ok"
                     THEN [github EXCEPT !.comments = @ \cup {cur.issue_number}]
                     ELSE github
        /\ cur' = [Call(cur, "add_comment_to_issue") EXCEPT !.pc = "update_scan_run"]
    /\ db_unchanged /\ UNCHANGED <<network, clock, disk>> /\ shell_unchanged

\* Step 6 (orchestrator.py:309-322)
finding_counts(scan_results) ==
    [k \in {"ERROR", "WARNING", "INFO"} |->
        IF k = "ERROR" THEN scan_results.ERROR
        ELSE IF k = "WARNING" THEN scan_results.WARNING
        ELSE scan_results.INFO]

update_scan_run_completed ==
    /\ cur.pc = "update_scan_run"
    /\ scan_runs' = update_scan_run(scan_runs, cur.scan_run_id, "completed",
                                    cur.scan_results.total_findings,
                                    finding_counts(cur.scan_results), "set")
    /\ cur' = [Call(cur, "update_scan_run") EXCEPT !.pc = "cleanup_clone"]
    /\ UNCHANGED <<security_findings, ai_analysis, github_issues>>
    /\ world_unchanged /\ shell_unchanged

\* faulty variant: a cleanup whose exception reaches the orchestrator
cleanup_clone_raising ==
    /\ cur.pc = "cleanup_clone"
    /\ \E raises \in BOOLEAN :
        cur' = IF raises
               THEN Raise(Call(cur, "cleanup_clone"), "OSError")
               ELSE IF email_handler
               THEN [Call(cur, "cleanup_clone") EXCEPT !.pc = "send_scan_summary_notification"]
               ELSE Returned(Call(cur, "cleanup_clone"), workflow_result(cur))
    /\ disk' = cleaned(disk, cur.local_path)
    /\ db_unchanged /\ UNCHANGED <<github, network, clock>> /\ shell_unchanged

\* cleanup_clone returns True or False and never raises (github_handler.py:438-456)
cleanup_clone ==
    /\ cur.pc = "cleanup_clone"
    /\ cur' = IF email_handler
              THEN [Call(cur, "cleanup_clone") EXCEPT !.pc = "send_scan_summary_notification"]
              ELSE Returned(Call(cur, "cleanup_clone"), workflow_result(cur))
    /\ disk' = cleaned(disk, cur.local_path)
    /\ db_unchanged /\ UNCHANGED <<github, network, clock>> /\ shell_unchanged

\* send_scan_summary_notification (email_handler.py:162-212): "fail" when there are
\* no recipients or the SMTP send fails. With recipients, _generate_scan_summary_email
\* (lines 488-512) calls .get on workflow_results['github_issue'] and
\* workflow_results['security_fix_pr']; either is None when its step did not run,
\* and the AttributeError ends the send with success false before anything is
\* handed to SMTP ("error").
summary_outcomes(r) ==
    IF r.github_issue_result = "None" \/ r.pr_result = "None"
    THEN {"fail", "error"}
    ELSE EmailOutcomes

\* faulty variant: a summary email that fails takes the run to the except clause
send_scan_summary_notification_fatal ==
    /\ cur.pc = "send_scan_summary_notification"
    /\ \E outcome \in summary_outcomes(cur) :
        cur' = IF outcome = "ok"
               THEN Returned(Sent(cur, "send_scan_summary_notification", outcome),
                             workflow_result(cur))
               ELSE Raise(Sent(cur, "send_scan_summary_notification", outcome),
                          "SMTPException")
    /\ db_unchanged /\ world_unchanged /\ shell_unchanged

send_scan_summary_notification ==
    /\ cur.pc = "send_scan_summary_notification"
    /\ \E outcome \in summary_outcomes(cur) :
        cur' = Returned(Sent(cur, "send_scan_summary_notification", outcome),
                        workflow_result(cur))
    /\ db_unchanged /\ world_unchanged /\ shell_unchanged

\* the except clause (orchestrator.py:398-442): the failed update, cleanup of the
\* working copy when local_path was assigned, and the failed result
except_update_scan_run ==
    /\ cur.pc = "except"
    /\ scan_runs' = update_scan_run(scan_runs, cur.scan_run_id, "failed", 0, NoCounts, "set")
    /\ cur' = [Call(cur, "update_scan_run") EXCEPT !.pc = "except_return"]
    /\ UNCHANGED <<security_findings, ai_analysis, github_issues>>
    /\ world_unchanged /\ shell_unchanged

except_return ==
    /\ cur.pc = "except_return"
    /\ cur' = IF cur.local_path # 0
              THEN Returned(Call(cur, "cleanup_clone"), failed_result(cur))
              ELSE Returned(cur, failed_result(cur))
    /\ disk' = IF cur.local_path # 0 THEN cleaned(disk, cur.local_path) ELSE disk
    /\ db_unchanged /\ UNCHANGED <<github, network, clock>> /\ shell_unchanged

(***************************************************************************)
(* _apply_code_changes (github_handler.py:677-712). File contents and      *)
(* replacement code are strings with "\n" between their lines.             *)
(***************************************************************************)
\* str.split('\n'): the pieces between the newlines, one more than there are newlines
RECURSIVE split(_)
split(s) ==
    IF \E i \in 1..Len(s) : s[i] = "\n"
    THEN LET i == CHOOSE k \in 1..Len(s) : s[k] = "\n" /\ \A j \in 1..(k - 1) : s[j] # "\n"
         IN  <<SubSeq(s, 1, i - 1)>> \o split(SubSeq(s, i + 1, Len(s)))
    ELSE <<s>>

\* '\n'.join(lines)
RECURSIVE join(_)
join(lines) ==
    IF Len(lines) = 0 THEN <<>>
    ELSE IF Len(lines) = 1 THEN lines[1]
    ELSE lines[1] \o <<"\n">> \o join(Tail(lines))

Change(line_start, line_end, new_code) ==
    [line_start |-> line_start, line_end |-> line_end, new_code |-> new_code]

Max(a, b) == IF a > b THEN a ELSE b

\* insertion into a list sorted by line_start, descending; among equal keys the
\* element inserted later comes later (sorted is stable, also with reverse=True)
RECURSIVE insert_descending(_, _)
insert_descending(sorted, change) ==
    IF Len(sorted) = 0 THEN <<change>>
    ELSE IF Head(sorted).line_start >= change.line_start
    THEN <<Head(sorted)>> \o insert_descending(Tail(sorted), change)
    ELSE <<change>> \o sorted

\* faulty variant: the changes applied in the order they are listed
sorted_changes_as_listed(changes) == changes

\* sorted(changes, key=line_start, reverse=True)
RECURSIVE sorted_changes(_)
sorted_changes(changes) ==
    IF Len(changes) = 0 THEN <<>>
    ELSE insert_descending(sorted_changes(SubSeq(changes, 1, Len(changes) - 1)),
                           changes[Len(changes)])

\* faulty variant: the last line of the range left in place
replace_lines_exclusive(lines, change) ==
    LET line_start == Max(0, Min(change.line_start - 1, Len(lines)))
        line_end == Max(line_start, Min(change.line_end - 1, Len(lines)))
        new_lines == IF Len(change.new_code) > 0 THEN split(change.new_code) ELSE << <<>> >>
    IN  SubSeq(lines, 1, line_start) \o new_lines \o SubSeq(lines, line_end + 1, Len(lines))

\* one pass of the loop (github_handler.py:697-710): the 0-based, clamped range
\* and the slice assignment lines[line_start:line_end + 1] = new_lines
replace_lines(lines, change) ==
    LET line_start == Max(0, Min(change.line_start - 1, Len(lines)))
        line_end == Max(line_start, Min(change.line_end - 1, Len(lines)))
        new_lines == IF Len(change.new_code) > 0 THEN split(change.new_code) ELSE << <<>> >>
    IN  SubSeq(lines, 1, line_start) \o new_lines \o SubSeq(lines, line_end + 2, Len(lines))

RECURSIVE replace_each(_, _)
replace_each(lines, changes) ==
    IF Len(changes) = 0 THEN lines
    ELSE replace_each(replace_lines(lines, Head(changes)), Tail(changes))

apply_code_changes(original_content, changes) ==
    IF Len(original_content) = 0
    THEN join([i \in 1..Len(changes) |-> changes[i].new_code])
    ELSE join(replace_each(split(original_content), sorted_changes(changes)))

NoEdit == [pc |-> "none", original_content |-> <<>>, changes |-> <<>>, result |-> <<>>]

\* the call returns
apply_code_changes_returns ==
    /\ edit.pc = "called"
    /\ edit' = [edit EXCEPT !.pc = "returned",
                            !.result = apply_code_changes(edit.original_content, edit.changes)]
    /\ UNCHANGED <<cur, github, network, clock, tasks, responses, outside, email_handler,
                   disk, runs>>
    /\ db_unchanged

(***************************************************************************)
(* The API shell (main.py).                                                *)
(***************************************************************************)
\* push events the provider delivers for activity outside the pipeline
ExternalPayloads ==
    {RawPayload(Str(REFS_HEADS \o b), Str(sha), hc, commits, repository) :
        b \in {S_main, S_hotfix},
        sha \in {S_sha, S_deleted_sha},
        hc \in {HeadCommit(Str(M_add)), HeadCommit(Str(M_sec)), NullDict},
        commits \in {"list", "absent"},
        repository \in {Repository(Str(S_repo)), NoDict}}

\* faulty variant: a branch deletion not told from a push
webhook_status_no_sentinel(webhook_data) ==
    IF webhook_data.event_type # "push" THEN 200
    ELSE IF ~truthy(webhook_data.repo_full_name) \/ ~truthy(webhook_data.branch) THEN 500
    ELSE 202

\* deliveries that are no push payload of the provider: other JSON values, and
\* objects in which a key holds null or a value of another type
MalformedPayloads ==
    {NonObject(json) : json \in {"null", "array", "string", "number"}}
    \cup {RawPayload(ref, Str(S_sha), HeadCommit(Str(M_add)), "list", Repository(Str(S_repo))) :
            ref \in {None, Other}}
    \cup {RawPayload(Str(REFS_HEADS \o S_main), Str(S_sha), HeadCommit(Str(M_add)), commits,
                     repository) :
            commits \in {"null", "absent"}, repository \in {NullDict, Repository(None)}}

\* github_webhook (main.py:164-236): the status it answers with and whether it
\* adds the background task. The HTTPException(400) is raised inside the try and
\* caught by `except Exception`, which answers 500.
webhook_status(webhook_data) ==
    IF webhook_data.event_type # "push" THEN 200
    ELSE IF ~truthy(webhook_data.repo_full_name) \/ ~truthy(webhook_data.branch) THEN 500
    ELSE IF truthy(webhook_data.commit_sha) /\ startswith(webhook_data.commit_sha.s, S_zeros)
    THEN 200
    ELSE 202

webhook_task(webhook_data, origin, event_message) ==
    [kind |-> "webhook", webhook_data |-> webhook_data,
     repo_name |-> webhook_data.repo_full_name.s, branch |-> webhook_data.branch,
     commit_sha |-> webhook_data.commit_sha, origin |-> origin,
     event_message |-> event_message]

github_webhook(event) ==
    LET webhook_data == extract_webhook_data(event.payload)
        status == webhook_status(webhook_data)
    IN  /\ Free
        /\ responses' = Append(responses, [status |-> status, origin |-> event.origin,
                                           request |-> event.payload])
        /\ tasks' = IF status = 202
                    THEN Append(tasks, webhook_task(webhook_data, event.origin,
                                                    payload_message(event.payload)))
                    ELSE tasks

\* a push from outside arrives
external_push ==
    /\ outside = "waiting"
    /\ outside' = "arrived"
    /\ \E payload \in ExternalPayloads \cup MalformedPayloads :
        github_webhook([origin |-> "external", payload |-> payload])
    /\ UNCHANGED <<cur, github, network, clock, email_handler, edit, disk, runs>>
    /\ db_unchanged

\* a push the pipeline's own PR creation caused arrives
remediation_push ==
    /\ network # <<>>
    /\ github_webhook(Head(network))
    /\ network' = Tail(network)
    /\ UNCHANGED <<cur, github, clock, outside, email_handler, edit, disk, runs>>
    /\ db_unchanged

\* manual_scan (main.py:239-269)
manual_scan ==
    /\ outside = "waiting"
    /\ Free
    /\ outside' = "arrived"
    /\ \E branch \in Branches :
        tasks' = Append(tasks,
                        [webhook_task(error_record(NoDict), "manual", Absent) EXCEPT
                            !.kind = "manual", !.repo_name = S_repo, !.branch = Str(branch)])
    /\ responses' = Append(responses, [status |-> 200, origin |-> "manual",
                                       request |-> NoPayload])
    /\ UNCHANGED <<cur, github, network, clock, email_handler, edit, disk, runs>>
    /\ db_unchanged

\* the background task starts (main.py:86-125): it calls the orchestrator
\* synchronously, so it holds the event loop until the orchestrator returns
background_task ==
    /\ tasks # <<>>
    /\ Free
    /\ LET task == Head(tasks)
       IN  cur' = IF task.kind = "manual"
                  THEN process_manual_scan(task.repo_name, task.branch.s)
                  ELSE process_github_webhook(task.webhook_data, task.repo_name,
                                              task.branch, task.commit_sha,
                                              "webhook", task.origin, task.event_message)
    /\ tasks' = Tail(tasks)
    /\ UNCHANGED <<responses, outside, email_handler, edit, runs>>
    /\ db_unchanged /\ world_unchanged

\* process_github_webhook called directly (the test scripts do)
direct_call ==
    /\ outside = "waiting"
    /\ Free
    /\ outside' = "arrived"
    /\ \E payload \in DirectPayloads, branch \in BranchArgs, commit_sha \in ShaArgs :
        cur' = process_github_webhook(payload, S_repo, branch, commit_sha,
                                      "direct", "direct", payload_message(payload))
    /\ UNCHANGED <<tasks, responses, email_handler, edit, runs>>
    /\ db_unchanged /\ world_unchanged

(***************************************************************************)
(* Specification.                                                          *)
(***************************************************************************)
Init ==
    /\ cur = NoRun
    /\ scan_runs = <<>>
    /\ security_findings = <<>>
    /\ ai_analysis = <<>>
    /\ github_issues = <<>>
    /\ github = [issues |-> 0, comments |-> {}, branches |-> {}, commits |-> 0, pulls |-> 0]
    /\ network = <<>>
    /\ tasks = <<>>
    /\ responses = <<>>
    /\ clock = 0
    /\ outside = "waiting"
    /\ email_handler \in BOOLEAN
    /\ edit = NoEdit
    /\ disk = NoDisk
    /\ runs = NoRuns

Next ==
    \/ external_push
    \/ remediation_push
    \/ manual_scan
    \/ background_task
    \/ direct_call
    \/ create_scan_run
    \/ clone_repository
    \/ scan_repository
    \/ store_security_findings
    \/ analyze_security_findings
    \/ store_ai_analysis
    \/ create_security_issue
    \/ store_github_issue
    \/ send_security_issue_notification
    \/ generate_code_fixes
    \/ create_security_fix_pr
    \/ send_pr_created_notification
    \/ add_comment_to_issue
    \/ update_scan_run_completed
    \/ cleanup_clone
    \/ send_scan_summary_notification
    \/ except_update_scan_run
    \/ except_return

Spec == Init /\ [][Next]_vars

(***************************************************************************)
(* The same program with a store whose statements may raise                *)
(* (sqlite3.OperationalError and the like). An exception inside a          *)
(* `with sqlite3.connect(...)` block rolls the statement back.             *)
(* create_scan_run is called before the try block and the failed update    *)
(* inside the except clause, so an exception there leaves the function;    *)
(* the other store calls are inside the try block.                         *)
(***************************************************************************)
StoreCalls ==
    {"create_scan_run", "store_security_findings", "store_ai_analysis",
     "store_github_issue", "update_scan_run", "except"}

store_raises ==
    /\ cur.pc \in StoreCalls
    /\ cur' = IF cur.pc = "create_scan_run"
              THEN Propagates(Call(cur, "create_scan_run"), "OperationalError")
              ELSE IF cur.pc = "except"
              THEN Propagates(Call(cur, "update_scan_run"), "OperationalError")
              ELSE Raise(Call(cur, cur.pc), "OperationalError")
    /\ db_unchanged /\ world_unchanged /\ shell_unchanged

NextStoreFaults == Next \/ store_raises

SpecStoreFaults == Init /\ [][NextStoreFaults]_vars

(***************************************************************************)
(* _apply_code_changes on its own: every file content and every list of    *)
(* changes within the bounds, then the call.                               *)
(***************************************************************************)
FileLines == [i \in 1..MaxLines |-> <<LowerCase[i]>>]

\* no content, the first lines of FileLines, and the same with a final newline
Contents ==
    {join(SubSeq(FileLines, 1, n)) : n \in 0..MaxLines}
    \cup {join(SubSeq(FileLines, 1, n)) \o <<"\n">> : n \in 1..MaxLines}

\* no replacement code, and two lines of it
NewCodes == {<<>>, <<"X", "\n", "Y">>}

\* ranges within the file and ranges that reach one line past its end
Changes ==
    {Change(a, b, code) : a \in 1..(MaxLines + 1), b \in 1..(MaxLines + 1), code \in NewCodes}

RECURSIVE ChangeLists(_)
ChangeLists(n) ==
    IF n = 0 THEN {<<>>}
    ELSE LET shorter == ChangeLists(n - 1)
         IN  shorter \cup {Append(l, c) : l \in {x \in shorter : Len(x) = n - 1},
                                          c \in {x \in Changes : x.line_start <= x.line_end}}

InitEdits ==
    /\ cur = NoRun
    /\ scan_runs = <<>>
    /\ security_findings = <<>>
    /\ ai_analysis = <<>>
    /\ github_issues = <<>>
    /\ github = [issues |-> 0, comments |-> {}, branches |-> {}, commits |-> 0, pulls |-> 0]
    /\ network = <<>>
    /\ tasks = <<>>
    /\ responses = <<>>
    /\ clock = 0
    /\ outside = "arrived"
    /\ email_handler = FALSE
    /\ disk = NoDisk
    /\ runs = NoRuns
    /\ \E original_content \in Contents, changes \in ChangeLists(MaxChanges) :
          edit = [NoEdit EXCEPT !.pc = "called", !.original_content = original_content,
                                !.changes = changes]

NextEdits == apply_code_changes_returns

SpecEdits == InitEdits /\ [][NextEdits]_vars

(***************************************************************************)
(* Two pipeline runs on one repository, as far as they call GitHubHandler: *)
(* each clones, calls create_security_fix_pr and cleans up                 *)
(* (orchestrator.py:127-135, 257-264, 340-342). They share the disk, the   *)
(* repository on GitHub and the clock, and their steps interleave freely.  *)
(***************************************************************************)
Runs == {"first", "second"}

HandlerRun == [pc |-> "clone_repository", local_path |-> 0, branch_name |-> <<>>,
               pr_result |-> "None"]

run_clone_repository(r) ==
    /\ runs[r].pc = "clone_repository"
    /\ \E outcome \in CloneOutcomes :
        LET temp_dir == mkdtemp(disk)
        IN  /\ disk' = cloned(disk, temp_dir, r, outcome)
            /\ runs' = IF outcome = "ok"
                       THEN [runs EXCEPT ![r].pc = "create_security_fix_pr",
                                         ![r].local_path = temp_dir]
                       ELSE [runs EXCEPT ![r].pc = "done"]
    /\ UNCHANGED <<cur, github, network, clock, tasks, responses, outside, email_handler, edit>>
    /\ db_unchanged

run_create_security_fix_pr(r) ==
    /\ runs[r].pc = "create_security_fix_pr"
    /\ \E tick \in 0..1, files_changed \in 0..MaxFiles, api_ok \in BOOLEAN, pull_ok \in BOOLEAN :
        LET now == clock + tick
            branch_name == fix_branch_name(now)
        IN  /\ clock' = now
            /\ IF ~ref_created(github, branch_name, api_ok)
               THEN /\ files_changed = 0 /\ pull_ok
                    /\ github' = github
                    /\ network' = network
                    /\ runs' = [runs EXCEPT ![r].pc = "cleanup_clone",
                                            ![r].branch_name = branch_name,
                                            ![r].pr_result = "fail"]
               ELSE /\ files_changed = 0 => pull_ok
                    /\ github' = github_after_fix(github, branch_name, files_changed, pull_ok)
                    /\ network' = network
                            \o <<branch_push(S_repo, branch_name)>>
                            \o repeat(commit_push(S_repo, branch_name), files_changed)
                    /\ runs' = [runs EXCEPT ![r].pc = "cleanup_clone",
                                            ![r].branch_name = branch_name,
                                            ![r].pr_result =
                                                IF files_changed > 0 /\ pull_ok
                                                THEN "ok" ELSE "fail"]
    /\ UNCHANGED <<cur, tasks, responses, outside, email_handler, edit, disk>>
    /\ db_unchanged

run_cleanup_clone(r) ==
    /\ runs[r].pc = "cleanup_clone"
    /\ disk' = cleaned(disk, runs[r].local_path)
    /\ runs' = [runs EXCEPT ![r].pc = "done"]
    /\ UNCHANGED <<cur, github, network, clock, tasks, responses, outside, email_handler, edit>>
    /\ db_unchanged

InitTwoRuns ==
    /\ cur = NoRun
    /\ scan_runs = <<>>
    /\ security_findings = <<>>
    /\ ai_analysis = <<>>
    /\ github_issues = <<>>
    /\ github = [issues |-> 0, comments |-> {}, branches |-> {}, commits |-> 0, pulls |-> 0]
    /\ network = <<>>
    /\ tasks = <<>>
    /\ responses = <<>>
    /\ clock = 0
    /\ outside = "arrived"
    /\ email_handler = FALSE
    /\ edit = NoEdit
    /\ disk = NoDisk
    /\ runs = [r \in Runs |-> HandlerRun]

NextTwoRuns ==
    \E r \in Runs :
        \/ run_clone_repository(r)
        \/ run_create_security_fix_pr(r)
        \/ run_cleanup_clone(r)

SpecTwoRuns == InitTwoRuns /\ [][NextTwoRuns]_vars

(***************************************************************************)
(* Properties.                                                             *)
(***************************************************************************)
\* s begins with p, character by character
BeginsWith(s, p) ==
    /\ Len(s) >= Len(p)
    /\ \A i \in 1..Len(p) : s[i] = p[i]

\* s begins with p when upper and lower case are not told apart
BeginsWithIgnoringCase(s, p) ==
    /\ Len(s) >= Len(p)
    /\ \A i \in 1..Len(p) : lower(<<s[i]>>) = lower(<<p[i]>>)

\* the calls the current invocation has made to the store and to collaborators
Calls == {cur.trace[i] : i \in 1..Len(cur.trace)}

\* an invocation of process_github_webhook has started
Invoked == cur.pc # "idle"

\* the head-commit message of the payload the invocation was handed, '' when the
\* payload has none
PayloadMessageText == IF cur.payload_message.p = "str" THEN cur.payload_message.s ELSE <<>>

OnRemediationBranch == BeginsWith(cur.branch, SECURITY_FIXES_PREFIX)

\* C1: every invocation whose branch begins with 'security-fixes-' has returned
\* skipped with reason 'security_fix_branch', whatever its commit message, has
\* created no scan_runs row and has called neither the store nor a collaborator;
\* no scan_runs row carries such a branch.
C1_BranchFilter ==
    /\ (Invoked /\ OnRemediationBranch) =>
          /\ cur.pc = "done"
          /\ cur.result.returned
          /\ cur.result.skipped_reason = "security_fix_branch"
          /\ cur.scan_run_id = 0
          /\ cur.trace = <<>>
    /\ \A i \in DOMAIN scan_runs : ~BeginsWith(scan_runs[i].branch, SECURITY_FIXES_PREFIX)

\* C1 happens: a direct call on security-fixes-hotfix with an ordinary commit message
C1_Witness ==
    /\ cur.via = "direct"
    /\ cur.branch = S_hotfix
    /\ cur.payload_message = Str(M_add)
    /\ cur.result.skipped_reason = "security_fix_branch"

\* C2: every invocation on a branch that does not begin with 'security-fixes-',
\* handed a payload whose head-commit message begins with 'security:' in any
\* letter case, has returned skipped with reason 'security_fix_commit', has
\* created no scan_runs row and has called neither the store nor a collaborator.
C2_CommitFilter ==
    (/\ Invoked
     /\ ~OnRemediationBranch
     /\ cur.payload_message.p = "str"
     /\ BeginsWithIgnoringCase(cur.payload_message.s, SECURITY_COMMIT_PREFIX)) =>
        /\ cur.pc = "done"
        /\ cur.result.returned
        /\ cur.result.skipped_reason = "security_fix_commit"
        /\ cur.scan_run_id = 0
        /\ cur.trace = <<>>

\* C2 happens: 'SECURITY: patch' on main is skipped by the commit filter
C2_Witness ==
    /\ cur.branch = S_main
    /\ cur.payload_message = Str(M_SEC)
    /\ cur.result.skipped_reason = "security_fix_commit"

\* C3: a push delivered to POST /webhook/github on a non-remediation branch whose
\* head-commit message begins with 'security:' leads to a background run that
\* the commit filter skips: the run creates no scan_runs row and clones nothing.
C3_EndpointCommitFilter ==
    (/\ Invoked
     /\ cur.via = "webhook"
     /\ ~OnRemediationBranch
     /\ cur.event_message.p = "str"
     /\ BeginsWithIgnoringCase(cur.event_message.s, SECURITY_COMMIT_PREFIX)) =>
        /\ cur.pc = "done"
        /\ cur.result.skipped_reason = "security_fix_commit"
        /\ cur.scan_run_id = 0
        /\ "clone_repository" \notin Calls

\* C4: every invocation that a push of the pipeline's own remediation caused (the
\* creation of the branch security-fixes-<timestamp> and each commit on it) is
\* skipped when the push comes back through the endpoint; every such push names
\* a branch the branch filter matches; one push from outside leads to at most
\* one run and one PR.
C4_NoRemediationLoop ==
    /\ (Invoked /\ cur.origin = "remediation") =>
          /\ cur.pc = "done"
          /\ cur.result.skipped_reason # "none"
          /\ cur.scan_run_id = 0
          /\ cur.trace = <<>>
    /\ \A i \in 1..Len(network) :
          BeginsWith(network[i].payload.ref.s, REFS_HEADS \o SECURITY_FIXES_PREFIX)
    /\ Len(scan_runs) <= 1
    /\ github.pulls <= 1

\* C4 happens: the push of a remediation commit came back after the PR was opened
\* and was skipped
C4_Witness ==
    /\ cur.origin = "remediation"
    /\ cur.event_message = Str(fix_commit_message)
    /\ cur.pc = "done"
    /\ cur.result.skipped_reason = "security_fix_branch"
    /\ github.pulls = 1
    /\ Len(scan_runs) = 1

\* C5: every skipped invocation returns success true with no error field and no
\* scan_run_id.
C5_SkipResult ==
    (Invoked /\ cur.result.skipped_reason # "none") =>
        /\ cur.pc = "done"
        /\ cur.result.returned
        /\ cur.result.success
        /\ cur.result.error = "none"
        /\ cur.result.scan_run_id = 0

\* C5 happens: a skip by the commit filter has been returned
C5_Witness ==
    /\ cur.pc = "done"
    /\ cur.result.skipped_reason = "security_fix_commit"
    /\ cur.result.success

\* the invocation went past both loop-prevention filters
PassedLoopPrevention == Invoked /\ cur.trace # <<>>

\* the invocation is over: it returned or an exception left it
Ended == cur.pc \in {"done", "raised"}

Terminal == {"completed", "failed"}

\* the invocation has a scan_runs row
HasRow == cur.scan_run_id \in DOMAIN scan_runs

\* C6: every invocation on a branch that does not begin with 'security-fixes-'
\* whose payload's head-commit message (or '' when it has none) does not begin
\* with 'security:' in any letter case is not skipped: it goes on to
\* create_scan_run and, from then on, has a scan_runs row for its repository and
\* branch.
C6_NotSkipped ==
    (/\ Invoked
     /\ ~OnRemediationBranch
     /\ cur.payload_message.p # "null"
     /\ ~BeginsWithIgnoringCase(PayloadMessageText, SECURITY_COMMIT_PREFIX)) =>
        /\ cur.result.skipped_reason = "none"
        /\ cur.pc # "raised"
        /\ cur.pc # "create_scan_run" =>
              /\ HasRow
              /\ cur.trace[1] = "create_scan_run"
              /\ scan_runs[cur.scan_run_id].repo_name = cur.repo_full_name
              /\ scan_runs[cur.scan_run_id].branch = cur.branch

\* C6 happens: 'security fix' (no colon) on branch security-fix (no -es-) has
\* its row
C6_Witness ==
    /\ cur.branch = S_fix
    /\ cur.payload_message = Str(M_nocolon)
    /\ HasRow
    /\ scan_runs[cur.scan_run_id].scan_status = "running"

\* C7: every invocation that passed loop prevention and is over has created
\* exactly one scan_runs row, and that row is 'completed' or 'failed', never
\* 'running', whatever the outcomes of clone, scan, analysis, issue, fix, PR,
\* notification and store calls were.
C7_RunDurability ==
    (PassedLoopPrevention /\ Ended) =>
        /\ HasRow
        /\ Len(scan_runs) = 1
        /\ scan_runs[cur.scan_run_id].scan_status \in Terminal

\* C8 in every state: a row has been updated at most once, it is terminal
\* exactly when it has been updated, and the row of a returned run has been
\* updated.
C8_WrittenOnce ==
    /\ \A i \in DOMAIN scan_runs :
          /\ scan_runs[i].updates <= 1
          /\ scan_runs[i].updates = 1 <=> scan_runs[i].scan_status \in Terminal
    /\ (cur.pc = "done" /\ HasRow) => scan_runs[cur.scan_run_id].updates = 1

\* C8 in every step: a row that changes was 'running' and becomes 'completed' or
\* 'failed'; so a terminal row keeps its status, counts and duration.
C8_OnlyTerminalTransition ==
    \A i \in DOMAIN scan_runs :
        scan_runs'[i] # scan_runs[i] =>
            /\ scan_runs[i].scan_status = "running"
            /\ scan_runs'[i].scan_status \in Terminal
            /\ scan_runs'[i].updates = scan_runs[i].updates + 1

\* C8: a scan_runs row is written exactly once after its creation, by the
\* terminal update; its status goes from 'running' to 'completed' or 'failed'
\* and no other way; once terminal, no later step of the invocation changes its
\* status, counts or duration.
C8_SingleTerminalWrite ==
    []C8_WrittenOnce /\ [][C8_OnlyTerminalTransition]_vars

\* C8 happens: the run returned after cleanup and the summary email, both steps
\* later than the terminal update, and its row is 'completed', updated once
C8_Witness ==
    /\ cur.pc = "done"
    /\ HasRow
    /\ scan_runs[cur.scan_run_id].scan_status = "completed"
    /\ scan_runs[cur.scan_run_id].updates = 1
    /\ cur.trace[Len(cur.trace)] = "send_scan_summary_notification"
    /\ "cleanup_clone" \in Calls

CloneFailed == cur.clone_result = "fail"
ScanErrored == cur.scan_results.error # "none"
CloneAndScanSucceeded ==
    cur.clone_result = "ok" /\ cur.scan_results.ran /\ cur.scan_results.error = "none"

\* C9: a run ends 'failed' only if the clone failed or the scan returned an
\* error; a run whose clone and scan both succeeded ends 'completed' and returns
\* success true, whatever the analysis, the issue, the fixes, the PR and the
\* emails came to.
C9_FailedOnlyOnCloneOrScan ==
    (cur.pc = "done" /\ HasRow) =>
        /\ scan_runs[cur.scan_run_id].scan_status = "failed" => (CloneFailed \/ ScanErrored)
        /\ CloneAndScanSucceeded =>
              /\ scan_runs[cur.scan_run_id].scan_status = "completed"
              /\ cur.result.success

\* what the pipeline does after the scan, cleanup aside
LaterSteps ==
    {"store_security_findings", "analyze_security_findings", "store_ai_analysis",
     "create_security_issue", "store_github_issue", "send_security_issue_notification",
     "generate_code_fixes", "create_security_fix_pr", "send_pr_created_notification",
     "add_comment_to_issue", "send_scan_summary_notification"}

\* C10: when the clone fails or the scan returns an error, no later pipeline step
\* runs (and no scan after a failed clone); the row is marked 'failed' with a
\* duration; the result has success false, an error, the scan_run_id, the
\* repository and the branch.
C10_FailFast ==
    (Invoked /\ (CloneFailed \/ ScanErrored)) =>
        /\ cur.pc \in {"except", "except_return", "done"}
        /\ Calls \cap LaterSteps = {}
        /\ CloneFailed => "scan_repository" \notin Calls
        /\ cur.pc = "done" =>
              /\ HasRow
              /\ scan_runs[cur.scan_run_id].scan_status = "failed"
              /\ scan_runs[cur.scan_run_id].scan_duration_seconds # "NULL"
              /\ cur.result.returned
              /\ ~cur.result.success
              /\ cur.result.error # "none"
              /\ cur.result.scan_run_id = cur.scan_run_id
              /\ cur.result.repo_name = cur.repo_full_name
              /\ cur.result.branch = cur.branch

\* C10 happens: the scan timed out and the failed result has been returned
C10_Witness ==
    /\ cur.pc = "done"
    /\ cur.scan_results.error = "Scan timeout"
    /\ HasRow
    /\ scan_runs[cur.scan_run_id].scan_status = "failed"
    /\ ~cur.result.success

\* how often the current invocation has made the call
CallCount(name) == Cardinality({i \in 1..Len(cur.trace) : cur.trace[i] = name})

\* C11: every invocation whose clone succeeded has called cleanup_clone for its
\* working copy by the time it ends, on the completed path and on every failure
\* path, whichever step raised.
C11_CleanupExecuted ==
    (Ended /\ cur.clone_result = "ok") => "cleanup_clone" \in Calls

\* C12: create_security_issue is called only in runs whose scan has
\* total_findings > 0; a run calls it at most once; no run has more than one
\* github_issues row, and no more issues exist than runs.
C12_IssueGating ==
    /\ "create_security_issue" \in Calls => cur.scan_results.total_findings > 0
    /\ (cur.scan_results.ran /\ cur.scan_results.total_findings = 0) =>
          /\ cur.github_issue_result = "None"
          /\ cur.issue_number = 0
    /\ CallCount("create_security_issue") <= 1
    /\ CallCount("store_github_issue") <= 1
    /\ \A i \in DOMAIN scan_runs :
          Cardinality({j \in DOMAIN github_issues : github_issues[j].scan_run_id = i}) <= 1
    /\ github.issues <= Len(scan_runs)

\* C12 happens: a run with findings has ended with its one issue filed and stored
C12_Witness ==
    /\ cur.pc = "done"
    /\ cur.scan_results.total_findings > 0
    /\ cur.github_issue_result = "ok"
    /\ github.issues = 1
    /\ Len(github_issues) = 1

\* the run has its analysis
Analysed == cur.analysis_results.source # "none"

\* C13: in a run whose analysis has an empty critical_issues list, neither
\* generate_code_fixes nor create_security_fix_pr is called, and the PR result
\* of the run is None ('not attempted').
C13_NoFixWithoutCritical ==
    (Analysed /\ cur.analysis_results.critical_issues = 0) =>
        /\ "generate_code_fixes" \notin Calls
        /\ "create_security_fix_pr" \notin Calls
        /\ cur.code_fixes = "None"
        /\ cur.pr_result = "None"
        /\ (cur.pc = "done" /\ cur.result.success) => cur.result.security_fix_pr = "None"

\* C13 happens: a run with an ERROR finding whose analysis lists no critical issue
\* has returned, its issue filed and its PR not attempted
C13_Witness ==
    /\ cur.pc = "done"
    /\ cur.result.success
    /\ cur.scan_results.ERROR > 0
    /\ cur.analysis_results.source = "model"
    /\ cur.analysis_results.critical_issues = 0
    /\ cur.github_issue_result = "ok"
    /\ cur.result.security_fix_pr = "None"

\* C14: every run that got past analysis with a non-empty critical_issues list
\* has called generate_code_fixes by the time it returns, whatever total_findings
\* is and whether or not an issue was filed.
C14_FixAttemptedWithCritical ==
    (/\ cur.pc = "done"
     /\ "store_ai_analysis" \in Calls
     /\ cur.analysis_results.critical_issues > 0) =>
        "generate_code_fixes" \in Calls

InExceptClause == cur.pc \in {"except", "except_return"}

\* the rows of ai_analysis that belong to the current run
AnalysisRows == {j \in DOMAIN ai_analysis : ai_analysis[j].scan_run_id = cur.scan_run_id}

\* C15: the call to analyze_security_findings always returns an analysis; when
\* the model call raised, it is the fallback analysis built from the ERROR
\* findings, the run stores it, does not enter the except clause and, once it has
\* returned, is 'completed' with success true.
C15_AnalysisFailureNotFatal ==
    /\ "analyze_security_findings" \in Calls => Analysed
    /\ cur.analysis_results.source = "fallback_analysis" =>
          /\ ~InExceptClause /\ cur.pc # "raised"
          /\ cur.analysis_results.critical_issues <= cur.scan_results.ERROR
          /\ "store_ai_analysis" \in Calls =>
                \E j \in AnalysisRows :
                    ai_analysis[j].critical_issues = cur.analysis_results.critical_issues
          /\ cur.pc = "done" =>
                /\ scan_runs[cur.scan_run_id].scan_status = "completed"
                /\ cur.result.success

\* C15 happens: the model call raised in a run with an ERROR finding, and the run
\* has returned 'completed' with the fallback analysis stored
C15_Witness ==
    /\ cur.pc = "done"
    /\ cur.analysis_results.source = "fallback_analysis"
    /\ cur.analysis_results.critical_issues > 0
    /\ AnalysisRows # {}
    /\ scan_runs[cur.scan_run_id].scan_status = "completed"

\* C16: whatever the model response was, the analysis returned by
\* analyze_security_findings has the four keys, executive_summary a string and
\* critical_issues, recommended_actions and tools_to_use lists.
C16_FourKeysTyped ==
    Analysed => cur.analysis_results.types = KeyTypes("str", "list", "list", "list")

\* C17: in a run whose scan has at least one ERROR finding and whose model output
\* was missing or could not be parsed, the analysis lists at least one critical
\* issue, an issue is filed and fix generation is attempted.
C17_FallbackFromFindings ==
    (/\ cur.pc = "done"
     /\ cur.scan_results.ERROR > 0
     /\ cur.analysis_results.source = "fallback_response") =>
        /\ cur.analysis_results.critical_issues > 0
        /\ "create_security_issue" \in Calls
        /\ "generate_code_fixes" \in Calls

\* no send of the run failed for want of recipients or of a working mail server
DeliveryWorking == cur.last_email = <<>> \/ cur.last_email[2] # "fail"

ScanSucceeded == cur.scan_results.ran /\ cur.scan_results.error = "none"

\* C18: a run whose scan returns total_findings = 0, with the notifier configured
\* and delivery working, ends 'completed' with no issue and no PR, and its
\* scan-summary notification is sent successfully.
C18_CleanRepoSummary ==
    (/\ cur.pc = "done"
     /\ ScanSucceeded
     /\ cur.scan_results.total_findings = 0
     /\ email_handler
     /\ DeliveryWorking) =>
        /\ scan_runs[cur.scan_run_id].scan_status = "completed"
        /\ cur.github_issue_result = "None"
        /\ cur.pr_result = "None"
        /\ cur.last_email = <<"send_scan_summary_notification", "ok">>

WarningsOnly == ScanSucceeded /\ cur.scan_results.WARNING = 1 /\ cur.scan_results.ERROR = 0

\* C19 as claimed: every run whose scan returns one WARNING finding and no ERROR
\* finding calls create_security_issue and calls neither generate_code_fixes nor
\* create_security_fix_pr.
C19_WarningsOnlyNoFix ==
    (cur.pc = "done" /\ WarningsOnly) =>
        /\ "create_security_issue" \in Calls
        /\ "generate_code_fixes" \notin Calls
        /\ "create_security_fix_pr" \notin Calls

\* C19 amended: a run whose scan returns one WARNING finding and no ERROR finding
\* calls create_security_issue; when its analysis lists no critical issue, as the
\* fallback analysis always does for such a scan, it calls neither
\* generate_code_fixes nor create_security_fix_pr.
C19_WarningsOnlyGated ==
    WarningsOnly =>
        /\ cur.analysis_results.source = "fallback_analysis" =>
              cur.analysis_results.critical_issues = 0
        /\ (cur.pc = "done" /\ cur.result.success) => "create_security_issue" \in Calls
        /\ (Analysed /\ cur.analysis_results.critical_issues = 0) =>
              /\ "generate_code_fixes" \notin Calls
              /\ "create_security_fix_pr" \notin Calls

\* C19 happens: a warnings-only run analysed by the fallback has returned with its
\* issue filed and no fix attempted
C19_Witness ==
    /\ cur.pc = "done"
    /\ WarningsOnly
    /\ cur.analysis_results.source = "fallback_analysis"
    /\ cur.github_issue_result = "ok"
    /\ "generate_code_fixes" \notin Calls

EmailCalls ==
    {"send_security_issue_notification", "send_pr_created_notification",
     "send_scan_summary_notification"}

\* C20: a notification send that fails changes neither the stored status nor the
\* success flag of the result, and the steps after it still run: a run that has
\* sent a notification never enters the except clause; its row is 'completed'
\* exactly from the terminal update on; once returned it is 'completed' with
\* success true and cleaned up; after the issue email fix generation is still
\* called when there are critical issues, and after the PR email the cross-link
\* comment is still made when an issue was filed.
C20_NotificationsNonFatal ==
    (Calls \cap EmailCalls # {}) =>
        /\ ~InExceptClause /\ cur.pc # "raised"
        /\ scan_runs[cur.scan_run_id].scan_status =
              (IF "update_scan_run" \in Calls THEN "completed" ELSE "running")
        /\ cur.pc = "done" =>
              /\ cur.result.success
              /\ "cleanup_clone" \in Calls
              /\ ("send_security_issue_notification" \in Calls
                    /\ cur.analysis_results.critical_issues > 0) =>
                        "generate_code_fixes" \in Calls
              /\ ("send_pr_created_notification" \in Calls
                    /\ cur.github_issue_result = "ok") =>
                        "add_comment_to_issue" \in Calls

\* C20 happens: the summary email failed after the PR email was sent, and the run
\* has returned 'completed' with success true
C20_Witness ==
    /\ cur.pc = "done"
    /\ cur.last_email = <<"send_scan_summary_notification", "fail">>
    /\ "send_pr_created_notification" \in Calls
    /\ "add_comment_to_issue" \in Calls
    /\ scan_runs[cur.scan_run_id].scan_status = "completed"
    /\ cur.result.success

\* the steps from the terminal update on
Finalizing == {"update_scan_run", "cleanup_clone", "send_scan_summary_notification", "done"}

\* C21: when generate_code_fixes returns a patch set without file changes or with
\* an error, create_security_fix_pr is not called, the run creates no remediation
\* branch, commit or PR, its PR result stays None, and it goes on to the terminal
\* update and returns 'completed'.
C21_NoPrWithoutFileChanges ==
    (cur.code_fixes \in {"empty", "error", "error_with_file_changes"}) =>
        /\ "create_security_fix_pr" \notin Calls
        /\ cur.pr_result = "None"
        /\ github.branches = {} /\ github.commits = 0 /\ github.pulls = 0
        /\ network = <<>>
        /\ cur.pc \in Finalizing
        /\ cur.pc = "done" =>
              /\ scan_runs[cur.scan_run_id].scan_status = "completed"
              /\ cur.result.success

\* C21 happens: fix generation came back with its error fallback, and the run has
\* returned 'completed' with no branch created
C21_Witness ==
    /\ cur.pc = "done"
    /\ cur.code_fixes = "error"
    /\ cur.analysis_results.critical_issues > 0
    /\ github.branches = {}
    /\ scan_runs[cur.scan_run_id].scan_status = "completed"

\* the run returned the result of a completed run
Completed == cur.pc = "done" /\ cur.result.success /\ cur.result.skipped_reason = "none"

\* C22: in the result of a completed run the issue field tells whether the issue
\* step was not attempted (None), failed or succeeded, and the PR field tells the
\* same of the fix step: it is None exactly when neither fix generation nor PR
\* creation was attempted, so that a failed fix generation or PR creation can be
\* told from the result alone from a run without critical issues.
C22_ThreeWayResult ==
    Completed =>
        /\ cur.result.github_issue \in {"None", "fail", "ok"}
        /\ cur.result.github_issue = "None" <=> "create_security_issue" \notin Calls
        /\ cur.result.github_issue = "ok" <=> cur.issue_number # 0
        /\ cur.result.security_fix_pr \in {"None", "fail", "ok"}
        /\ cur.result.security_fix_pr = "None" <=> "generate_code_fixes" \notin Calls
        /\ cur.result.security_fix_pr = "ok" <=> github.pulls = 1

\* the store writes of one run, in pipeline order
StoreOrder ==
    <<"create_scan_run", "store_security_findings", "store_ai_analysis",
      "store_github_issue", "update_scan_run">>

\* the place of a call in StoreOrder, 0 for a call that is no store write
Rank(name) ==
    IF \E k \in 1..Len(StoreOrder) : StoreOrder[k] = name
    THEN CHOOSE k \in 1..Len(StoreOrder) : StoreOrder[k] = name
    ELSE 0

\* the rows a step appends to a satellite table
Appended(before, after) == {after[j] : j \in (Len(before) + 1)..Len(after)}

\* C23 in every state: the store writes the run has made are in pipeline order,
\* each made once, and every findings, analysis and issue row belongs to a run
\* whose row exists.
C23_WritesInOrder ==
    /\ \A i \in 1..Len(cur.trace) : \A j \in (i + 1)..Len(cur.trace) :
          (Rank(cur.trace[i]) > 0 /\ Rank(cur.trace[j]) > 0) =>
              Rank(cur.trace[i]) < Rank(cur.trace[j])
    /\ \A j \in DOMAIN security_findings :
          security_findings[j].scan_run_id \in DOMAIN scan_runs
    /\ \A j \in DOMAIN ai_analysis : ai_analysis[j].scan_run_id \in DOMAIN scan_runs
    /\ \A j \in DOMAIN github_issues : github_issues[j].scan_run_id \in DOMAIN scan_runs

\* C23 in every step: a step that writes findings, an analysis or an issue row
\* writes them for the current run, whose row exists and is still 'running'.
C23_WrittenWhileRunning ==
    LET written == Appended(security_findings, security_findings')
                   \cup Appended(ai_analysis, ai_analysis')
                   \cup Appended(github_issues, github_issues')
    IN  written # {} =>
            /\ HasRow
            /\ scan_runs[cur.scan_run_id].scan_status = "running"
            /\ \A row \in written : row.scan_run_id = cur.scan_run_id

\* C23: within one run the store writes happen in the order create run row,
\* insert findings, insert analysis, insert issue row (if any), final update of
\* the run row; no findings, analysis or issue row is written before the run's
\* row exists or after it has been finalized.
C23_StoreWriteOrder ==
    []C23_WritesInOrder /\ [][C23_WrittenWhileRunning]_vars

\* C23 happens: a run has made all five writes and returned
C23_Witness ==
    /\ cur.pc = "done"
    /\ \A k \in 1..Len(StoreOrder) : StoreOrder[k] \in Calls
    /\ Len(security_findings) > 0 /\ Len(ai_analysis) = 1 /\ Len(github_issues) = 1
    /\ scan_runs[cur.scan_run_id].scan_status = "completed"

\* every character of s is the digit 0
AllZero(s) == Len(s) > 0 /\ \A i \in 1..Len(s) : s[i] = "0"

\* the delivery is not a push event: it has no ref or no commits list
NotPushEvent(request) == request.ref.p = "absent" \/ request.commits = "absent"

\* the commit reference of the delivery is the all-zero sentinel
DeletionSentinel(request) == request.after.p = "str" /\ AllZero(request.after.s)

\* the delivery names its repository and its branch
NamesRepositoryAndBranch(request) ==
    /\ request.repository.p = "dict"
    /\ request.repository.full_name.p = "str"
    /\ Len(request.repository.full_name.s) > 0
    /\ request.ref.p = "str"
    /\ request.ref.s # REFS_HEADS

\* the endpoint answers a webhook delivery in this step
Delivered == Len(responses') = Len(responses) + 1 /\ responses'[Len(responses')].origin # "manual"

\* the step schedules and starts nothing
NothingScheduled == tasks' = tasks /\ cur' = cur /\ scan_runs' = scan_runs

C24_NoRunForIgnored ==
    /\ \A i \in 1..Len(tasks) :
          tasks[i].kind = "webhook" =>
              /\ tasks[i].webhook_data.event_type = "push"
              /\ ~(tasks[i].commit_sha.p = "str" /\ AllZero(tasks[i].commit_sha.s))
    /\ cur.via = "webhook" => ~(cur.commit_sha.p = "str" /\ AllZero(cur.commit_sha.s))
    /\ \A i \in DOMAIN scan_runs : ~AllZero(scan_runs[i].commit_sha)

\* C24 in every step: a delivery that is not a push or that carries the all-zero
\* reference adds no background task and starts nothing; it is answered 200 when
\* it is not a push, and when it carries the all-zero reference and names its
\* repository and branch.
C24_IgnoredStep ==
    Delivered =>
        LET d == responses'[Len(responses')]
        IN  /\ (NotPushEvent(d.request) \/ DeletionSentinel(d.request)) => NothingScheduled
            /\ NotPushEvent(d.request) => d.status = 200
            /\ (DeletionSentinel(d.request) /\ NamesRepositoryAndBranch(d.request)) =>
                  d.status = 200

MidRun == ~Free

\* C25: while a run is suspended in one of its steps, a webhook delivery that has
\* arrived can be answered without waiting for the run to return, and a task
\* that was scheduled can start.
C25_RunsDoNotBlock ==
    MidRun =>
        /\ network # <<>> => ENABLED remediation_push
        /\ tasks # <<>> => ENABLED background_task

\* the places of the newlines of a text
NewlinesOf(s) == {i \in 1..Len(s) : s[i] = "\n"}

\* the place of the k-th newline of a text
NthNewline(s, k) ==
    CHOOSE p \in NewlinesOf(s) : Cardinality({q \in NewlinesOf(s) : q < p}) = k - 1

\* the lines of a text: what stands before, between and after its newlines
TextLines(s) ==
    [k \in 1..(Cardinality(NewlinesOf(s)) + 1) |->
        SubSeq(s,
               IF k = 1 THEN 1 ELSE NthNewline(s, k - 1) + 1,
               IF k = Cardinality(NewlinesOf(s)) + 1 THEN Len(s) ELSE NthNewline(s, k) - 1)]

\* the change names lines a..b of a text of n lines, 1 <= a <= b <= n
InRange(change, n) ==
    1 <= change.line_start /\ change.line_start <= change.line_end /\ change.line_end <= n

EditReturned == edit.pc = "returned"

\* C26: for non-empty content of N lines and one change with 1 <= a <= b <= N,
\* the lines of the result are lines 1..a-1 of the content, then the lines of
\* new_code, then lines b+1..N of the content.
C26_LineEdit ==
    (/\ EditReturned
     /\ Len(edit.original_content) > 0
     /\ Len(edit.changes) = 1
     /\ InRange(edit.changes[1], Len(TextLines(edit.original_content)))) =>
        LET lines == TextLines(edit.original_content)
            change == edit.changes[1]
        IN  TextLines(edit.result) =
                SubSeq(lines, 1, change.line_start - 1)
                \o TextLines(change.new_code)
                \o SubSeq(lines, change.line_end + 1, Len(lines))

\* C26 happens: line 2 of three lines was replaced by two lines
C26_Witness ==
    /\ EditReturned
    /\ edit.original_content = <<"a", "\n", "b", "\n", "c">>
    /\ edit.changes = <<Change(2, 2, <<"X", "\n", "Y">>)>>
    /\ edit.result = <<"a", "\n", "X", "\n", "Y", "\n", "c">>

\* no two of the changes name a common line
NonOverlapping(changes) ==
    \A i \in 1..Len(changes) : \A j \in 1..Len(changes) :
        i # j => (changes[i].line_end < changes[j].line_start
                    \/ changes[j].line_end < changes[i].line_start)

\* the lines from line i on, every range a change names replaced by that change's
\* lines, in the numbering of the original
RECURSIVE Rewritten(_, _, _)
Rewritten(lines, changes, i) ==
    IF i > Len(lines) THEN <<>>
    ELSE IF \E k \in 1..Len(changes) : changes[k].line_start = i
    THEN LET k == CHOOSE k \in 1..Len(changes) : changes[k].line_start = i
         IN  TextLines(changes[k].new_code) \o Rewritten(lines, changes, changes[k].line_end + 1)
    ELSE <<lines[i]>> \o Rewritten(lines, changes, i + 1)

\* a list back to front
Reversed(l) == [i \in 1..Len(l) |-> l[Len(l) + 1 - i]]

\* C27: for several pairwise non-overlapping changes within a non-empty content,
\* listed in any order, each range of the original numbering is replaced by its
\* change's lines and every other line stays, in order; the same changes listed
\* back to front give the same result.
C27_OrderIndependent ==
    (/\ EditReturned
     /\ Len(edit.original_content) > 0
     /\ Len(edit.changes) > 1
     /\ \A k \in 1..Len(edit.changes) :
            InRange(edit.changes[k], Len(TextLines(edit.original_content)))
     /\ NonOverlapping(edit.changes)) =>
        /\ TextLines(edit.result) =
                Rewritten(TextLines(edit.original_content), edit.changes, 1)
        /\ edit.result = apply_code_changes(edit.original_content, Reversed(edit.changes))

\* C27 happens: line 1 grew to two lines and lines 2..3 shrank to one, the upper
\* change listed first
C27_Witness ==
    /\ EditReturned
    /\ edit.original_content = <<"a", "\n", "b", "\n", "c">>
    /\ edit.changes = <<Change(1, 1, <<"X", "\n", "Y">>), Change(2, 3, <<>>)>>
    /\ edit.result = <<"X", "\n", "Y", "\n">>

\* the webhook deliveries answered so far
Deliveries == {i \in 1..Len(responses) : responses[i].origin # "manual"}

\* C28: for every payload delivered (any JSON value, any field missing or null)
\* extract_webhook_data returns a push record, an 'unknown' record or an 'error'
\* record and does not raise: a push record only for an object with a ref and a
\* commits list, an 'unknown' record only for an object without one of them, and
\* the endpoint answers 500 only for a push record.
C28_ExtractTotal ==
    \A i \in Deliveries :
        LET request == responses[i].request
            data == extract_webhook_data(request)
        IN  /\ data.event_type \in {"push", "unknown", "error"}
            /\ data.event_type = "push" =>
                  (request.json = "object" /\ ~NotPushEvent(request))
            /\ data.event_type = "unknown" =>
                  (request.json = "object" /\ NotPushEvent(request))
            /\ responses[i].status = 500 => data.event_type = "push"
            /\ responses[i].status = 202 => data.event_type = "push"

\* C28 happens: a push whose ref is null got the 'error' record and its 200
C28_Witness ==
    /\ Len(responses) = 1
    /\ responses[1].request =
          RawPayload(None, Str(S_sha), HeadCommit(Str(M_add)), "list", Repository(Str(S_repo)))
    /\ extract_webhook_data(responses[1].request).event_type = "error"
    /\ responses[1].status = 200

\* the invocation a push of 'Add feature' with commit reference 'manual_scan' on
\* the branch leads to by way of the endpoint
WebhookInvocation(repo_full_name, branch) ==
    LET payload == RawPayload(Str(REFS_HEADS \o branch), Str(S_manual_scan),
                              HeadCommit(Str(M_add)), "list", Repository(Str(repo_full_name)))
        webhook_data == extract_webhook_data(payload)
    IN  process_github_webhook(webhook_data, webhook_data.repo_full_name.s,
                               webhook_data.branch, webhook_data.commit_sha,
                               "webhook", "external", Str(M_add))

\* C29: a manual scan of a repository and branch is the invocation a webhook for
\* the same repository and branch with commit reference 'manual_scan' and a
\* message no filter matches leads to: the same repository, branch and commit
\* reference, the same loop-prevention decision and skip result, and for a run
\* that is not skipped the same first store write, a 'running' row with these
\* three values, from which the pipeline goes on as for any run.
C29_ManualAsWebhook ==
    cur.via = "manual" =>
        LET w == WebhookInvocation(cur.repo_full_name, cur.branch)
        IN  /\ cur.repo_full_name = w.repo_full_name
            /\ cur.branch = w.branch
            /\ cur.commit_sha = w.commit_sha
            /\ cur.commit_sha = Str(S_manual_scan)
            /\ w.pc \in {"done", "create_scan_run"}
            /\ w.pc = "done" =>
                  /\ cur.pc = "done" /\ cur.trace = <<>>
                  /\ cur.result = w.result
                  /\ BeginsWith(cur.branch, SECURITY_FIXES_PREFIX)
            /\ w.pc = "create_scan_run" =>
                  /\ cur.pc # "raised"
                  /\ cur.result.skipped_reason = "none"
                  /\ cur.pc # "create_scan_run" =>
                        /\ cur.trace[1] = "create_scan_run"
                        /\ HasRow
                        /\ scan_runs[cur.scan_run_id].repo_name = w.repo_full_name
                        /\ scan_runs[cur.scan_run_id].branch = w.branch
                        /\ scan_runs[cur.scan_run_id].commit_sha = w.commit_sha.s

\* C29 happens: a manual scan of main has returned 'completed', its row carrying
\* the commit reference 'manual_scan', and a manual scan of security-fixes-hotfix
\* would be skipped
C29_Witness ==
    /\ cur.via = "manual"
    /\ cur.pc = "done"
    /\ cur.branch = S_main
    /\ scan_runs[cur.scan_run_id].commit_sha = S_manual_scan
    /\ scan_runs[cur.scan_run_id].scan_status = "completed"
    /\ process_manual_scan(S_repo, S_hotfix).result.skipped_reason = "security_fix_branch"

\* the steps of a completed run in the order the claim gives them
ClaimedOrder ==
    <<"create_scan_run", "clone_repository", "scan_repository", "store_security_findings",
      "analyze_security_findings", "store_ai_analysis", "create_security_issue",
      "send_security_issue_notification", "generate_code_fixes", "create_security_fix_pr",
      "add_comment_to_issue", "send_pr_created_notification",
      "send_scan_summary_notification", "update_scan_run", "cleanup_clone">>

\* the place of a call in ClaimedOrder, 0 for a call the claim does not name
Place(name) ==
    IF \E k \in 1..Len(ClaimedOrder) : ClaimedOrder[k] = name
    THEN CHOOSE k \in 1..Len(ClaimedOrder) : ClaimedOrder[k] = name
    ELSE 0

\* C30: the calls of a completed run were made in the order run row, clone, scan,
\* persist findings, analyze, persist analysis, file issue, issue notification,
\* fix generation, open PR, cross-link comment, PR-created notification, final
\* notification, final update of the run row, cleanup.
C30_StepOrder ==
    Completed =>
        \A i \in 1..Len(cur.trace) : \A j \in (i + 1)..Len(cur.trace) :
            (Place(cur.trace[i]) > 0 /\ Place(cur.trace[j]) > 0) =>
                Place(cur.trace[i]) < Place(cur.trace[j])

(***************************************************************************)
(* C31, C32: two runs on one repository (SpecTwoRuns).                     *)
(***************************************************************************)
\* the run has called create_security_fix_pr and the call has returned
Attempted(r) == runs[r].pc \in {"cleanup_clone", "done"} /\ runs[r].pr_result # "None"

\* C31: any two invocations of create_security_fix_pr on one repository, one after
\* the other or at once, the same clock second included, use different branch
\* names. The branch name is the second of the call, so two calls within one
\* second ask for the same name and the later create_git_ref is refused.
C31_DistinctBranchNames ==
    \A r1 \in Runs, r2 \in Runs :
        (r1 # r2 /\ Attempted(r1) /\ Attempted(r2))
            => runs[r1].branch_name # runs[r2].branch_name

\* the run holds a working copy: its clone succeeded and its cleanup has not run
HoldsCopy(r) == runs[r].pc \in {"create_security_fix_pr", "cleanup_clone"}

\* C32: in every interleaving of two runs each run's working-copy path is its own,
\* and the other run's clone and cleanup leave its working copy as it was: as long
\* as a run holds its copy, the copy at its path is the one it cloned.
C32_OwnWorkingCopy ==
    /\ \A r \in Runs :
           HoldsCopy(r) => \E c \in disk.copies : c.temp_dir = runs[r].local_path
                                                  /\ c.owner = r
    /\ \A r1 \in Runs, r2 \in Runs :
           (r1 # r2 /\ HoldsCopy(r1) /\ HoldsCopy(r2))
               => runs[r1].local_path # runs[r2].local_path

\* one run has cloned and cleaned up while the other still holds its copy
C32_Witness ==
    \E r1 \in Runs, r2 \in Runs :
        /\ r1 # r2
        /\ runs[r1].pc = "done" /\ runs[r1].local_path # 0
        /\ HoldsCopy(r2)

(***************************************************************************)
(* C33: the issue title.                                                   *)
(***************************************************************************)
\* the run has filed its issue
IssueFiled == cur.github_issue_result = "ok"

\* C33: the title of a filed issue is a function of the run's counts: with at least
\* one critical issue the alert form with the critical-issue count and the scan's
\* total number of findings, otherwise the review form with the scan's total
\* number of findings. The code prints the critical-issue count as the total.
C33_TitleFromCounts ==
    IssueFiled =>
        /\ cur.issue_title.total = cur.scan_results.total_findings
        /\ cur.issue_title.form = IF cur.analysis_results.critical_issues > 0
                                  THEN "alert" ELSE "review"
        /\ cur.analysis_results.critical_issues > 0
               => cur.issue_title.critical = cur.analysis_results.critical_issues

(***************************************************************************)
(* C34: the least push payload.                                            *)
(***************************************************************************)
\* the payload is an object with a ref string, a commit reference and the
\* repository's full name
LeastPush(request) ==
    /\ request.json = "object"
    /\ request.ref.p = "str"
    /\ request.after.p = "str"
    /\ request.repository.p = "dict" /\ request.repository.full_name.p = "str"

\* the text without the prefix it begins with
WithoutLeading(text, prefix) ==
    IF BeginsWith(text, prefix) THEN SubSeq(text, Len(prefix) + 1, Len(text)) ELSE text

\* C34: a delivered payload with a ref string, a commit reference and the
\* repository's full name is normalized as a push event whose branch is the ref
\* without its leading 'refs/heads/' and whose repo_full_name is that full name,
\* with or without a commits list and a head-commit message. The code takes a
\* payload for a push only when it has a "commits" key.
C34_LeastPushNormalized ==
    \A i \in Deliveries :
        LET request == responses[i].request
            data == extract_webhook_data(request)
        IN  LeastPush(request) =>
                /\ data.event_type = "push"
                /\ data.branch = Str(WithoutLeading(request.ref.s, REFS_HEADS))
                /\ data.repo_full_name = request.repository.full_name

(***************************************************************************)
(* C35: the cross-link comment.                                            *)
(***************************************************************************)
\* the issue numbers the store holds for the runs so far
FiledIssues == {github_issues[i].issue_number : i \in 1..Len(github_issues)}

\* C35: a run posts the cross-link comment exactly when its PR was created and its
\* issue was filed; a comment that arrives is on an issue a run filed, and the
\* current run's comment on its own issue; and whatever the comment call does
\* (success, failure record, exception) the PR result stays success and the run
\* returns 'completed' with it.
C35_CrossLink ==
    /\ cur.pc \in Finalizing =>
          ("add_comment_to_issue" \in Calls
              <=> (cur.pr_result = "ok" /\ cur.github_issue_result = "ok"))
    /\ github.comments \subseteq FiledIssues
    /\ "add_comment_to_issue" \in Calls =>
          /\ cur.pr_result = "ok"
          /\ cur.issue_number \in FiledIssues
          /\ github.comments \subseteq {cur.issue_number}
          /\ cur.pc = "done" => (Completed /\ cur.result.security_fix_pr = "ok")

\* C35 happens: the comment call of a run failed and the run returned 'completed'
\* with its PR
C35_Witness ==
    /\ "add_comment_to_issue" \in Calls
    /\ github.comments = {}
    /\ Completed
    /\ cur.result.security_fix_pr = "ok"

(***************************************************************************)
(* C36: the disk after an invocation.                                      *)
(***************************************************************************)
\* C36: once an invocation has ended, nothing clone_repository made on disk is
\* left, neither a working copy nor the temporary directory around it, after a
\* failed clone as after a clone that was cleaned up. cleanup_clone removes the
\* working copy only, and a failed clone removes nothing.
C36_NothingLeftOnDisk ==
    Ended => (disk.copies = {} /\ disk.temp_dirs = {})

(***************************************************************************)
(* C37: process_github_webhook returns (SpecStoreFaults).                  *)
(***************************************************************************)
\* C37: whatever the payload (a null or absent head_commit included) and whatever
\* the store and the collaborators do, process_github_webhook returns a result
\* record and lets no exception reach its caller, and an invocation in which
\* something raised leaves no scan_runs row in 'running'. The statements before
\* the try block (orchestrator.py:73-112) are not guarded.
C37_AlwaysReturns ==
    /\ cur.pc # "raised"
    /\ (Ended /\ cur.exception # "none" /\ HasRow)
           => scan_runs[cur.scan_run_id].scan_status # "running"

(***************************************************************************)
(* C38: the counts of a completed row.                                     *)
(***************************************************************************)
\* the Finding rows inserted for a run
FindingRows(scan_run_id) ==
    {i \in 1..Len(security_findings) : security_findings[i].scan_run_id = scan_run_id}

\* C38: on every 'completed' scan_runs row total_findings is the number of Finding
\* rows inserted for the run, and the stored per-severity counts add up to it,
\* each inserted row being counted in exactly one of them. The row has no count
\* that takes the INFO findings.
C38_CountsAgree ==
    \A id \in DOMAIN scan_runs :
        scan_runs[id].scan_status = "completed" =>
            /\ scan_runs[id].total_findings = Cardinality(FindingRows(id))
            /\ scan_runs[id].critical_count + scan_runs[id].high_count
                   + scan_runs[id].medium_count + scan_runs[id].low_count
                 = scan_runs[id].total_findings

(***************************************************************************)
(* C39: a failed create_security_fix_pr.                                   *)
(***************************************************************************)
\* C39: when the run's create_security_fix_pr has reported failure, because no
\* file could be modified or because the API raised after the branch was made,
\* the repository holds no remediation branch and no commit of the attempt.
\* Neither return path deletes the reference or the commits.
C39_FailureLeavesNothing ==
    cur.pr_result = "fail" => (github.branches = {} /\ github.commits = 0)

(***************************************************************************)
(* C40: a push without repository name or branch.                          *)
(***************************************************************************)
\* C40: a push event delivered without a repository name or without a branch is
\* answered 400, never 500 (that it schedules no run is part of C24). The
\* HTTPException(400) is raised inside the endpoint's try block, whose
\* `except Exception` answers 500.
C40_RejectedWith400 ==
    \A i \in Deliveries :
        LET request == responses[i].request
        IN  (extract_webhook_data(request).event_type = "push"
                /\ ~NamesRepositoryAndBranch(request))
            => responses[i].status = 400
====
